---- MODULE Spec2Model ----
(***************************************************************************)
(* Marketplace backend: listings, orders, escrows, escrow events and       *)
(* disputes, as stored by the Django models of src/marketplace/models.py   *)
(* and as served by the REST views of src/marketplace/views.py through     *)
(* the serializers of src/marketplace/serializers.py.                      *)
(*                                                                         *)
(* A state is the content of the database tables plus the last request     *)
(* and its response.  One action per endpoint and HTTP method, and one per *)
(* model-level operation that has no endpoint (Escrow.mark_*, the creation *)
(* of listings, events and disputes through the ORM).                      *)
(***************************************************************************)
EXTENDS Integers, FiniteSets, Sequences, TLC

\* ------------------------------------------------------------------ bounds
MaxListings == 1
MaxOrders == 1
MaxEscrows == 1
MaxEvents == 1
MaxDisputes == 2

\* ------------------------------------------------------------- value sets
\* the accounts: enough for a buyer, a seller and somebody who is neither
Users == {"u1", "u2", "u3"}
\* request.user of a request without credentials
ANON == "anon"
Requesters == Users \cup {ANON}
\* Python None / SQL NULL in a text or user column
NULL == "NULL"
\* NULL in an integer foreign-key column (listing, escrow)
NoRow == 0

STATUS_AWAITING == "AWAITING_PAYMENT"
STATUS_FUNDED == "FUNDED"
STATUS_SHIPPED == "SHIPPED"
STATUS_COMPLETE == "COMPLETE"
STATUS_DISPUTE == "DISPUTE"
STATUS_REFUNDED == "REFUNDED"
STATUS_CHOICES ==
    {STATUS_AWAITING, STATUS_FUNDED, STATUS_SHIPPED, STATUS_COMPLETE, STATUS_DISPUTE,
     STATUS_REFUNDED}

ORDER_STATUS_CHOICES == {"pending", "paid", "shipped", "completed", "cancelled"}

EVENT_TYPES ==
    {"payment_secured", "item_shipped", "delivered", "released", "refunded",
     "dispute_opened", "dispute_resolved"}

\* transaction hashes and raw amounts handed to the helper methods and sent in bodies
TxHashes == {"0xa"}
RawAmounts == {"7"}

VARIABLES listings, listingSeq, orders, orderSeq, escrows, events, disputes, last

\* the table of listing images and the last id it gave out
VARIABLES images, imageSeq

\* the Escrow instances that callers of the helper methods hold in memory
VARIABLES loaded

\* the tables of the accounts app and of the token blacklist, and the requests to
\* accounts/ that are under way
VARIABLES users, profiles, registering, outstanding, blacklisted, mailbox

imageVars == <<images, imageSeq>>

marketVars ==
    <<listings, listingSeq, orders, orderSeq, escrows, events, disputes, imageVars, loaded>>

accountVars == <<users, profiles, registering, outstanding, blacklisted, mailbox>>

vars == <<marketVars, accountVars, last>>

\* ----------------------------------------------------------------- helpers
\* dict update: g's keys win
Merge(f, g) == [k \in DOMAIN f \cup DOMAIN g |-> IF k \in DOMAIN g THEN g[k] ELSE f[k]]

Restrict(f, S) == [k \in DOMAIN f \cap S |-> f[k]]

\* a table with the rows of the given ids removed
Without(table, ids) == [k \in DOMAIN table \ ids |-> table[k]]

\* the record of the last operation: op, requester, pk of the URL or of the row
\* written (or NoRow), HTTP status (0 for a model-level call), ids of the objects in
\* the response body, the escrow row as it was before a mark_* call, and the names
\* of the fields a POST escrows/ body carried
NoPrev == [status |-> NULL, tx_fund |-> NULL, tx_release |-> NULL]

Op(op, user, pk, code, body) ==
    [op |-> op, user |-> user, pk |-> pk, code |-> code, body |-> body, prev |-> NoPrev,
     sent |-> {}]

\* ------------------------------------------------- serializer construction
\* ModelSerializer.get_fields: every field declared on the class must be listed in
\* Meta.fields (AssertionError otherwise), and every other name of Meta.fields must
\* be a field or attribute of the model (ImproperlyConfigured otherwise).  A
\* serializer whose fields cannot be built raises on is_valid() and on .data alike.
SerializerBuilds(declared, metaFields, modelAttrs) ==
    /\ declared \subseteq metaFields
    /\ (metaFields \ declared) \subseteq modelAttrs

Listing_attrs ==
    {"id", "seller", "title", "description", "category", "price", "token_address",
     "quantity", "is_active", "is_sold", "metadata", "created_at", "updated_at",
     "images", "orders"}

ListingSerializer_declared == {"seller", "images"}

ListingSerializer_Meta_fields ==
    {"id", "seller", "title", "description", "price", "category", "image", "created_at",
     "updated_at"}

ListingSerializer_builds ==
    SerializerBuilds(ListingSerializer_declared, ListingSerializer_Meta_fields, Listing_attrs)

Escrow_attrs ==
    {"id", "onchain_id", "contract_address", "chain", "listing", "buyer", "seller",
     "amount", "raw_amount", "status", "tx_create", "tx_fund", "tx_release", "tx_refund",
     "metadata", "created_at", "updated_at", "events", "dispute", "order"}

EscrowSerializer_declared == {"buyer", "seller", "listing", "listing_id"}

EscrowSerializer_Meta_fields ==
    {"id", "onchain_id", "contract_address", "chain", "listing", "listing_id", "buyer",
     "seller", "amount", "raw_amount", "status", "tx_create", "tx_fund", "tx_release",
     "tx_refund", "metadata", "created_at", "updated_at"}

EscrowSerializer_builds ==
    SerializerBuilds(EscrowSerializer_declared, EscrowSerializer_Meta_fields, Escrow_attrs)

EscrowSerializer_read_only_fields_unguarded ==
    {"id", "buyer", "seller", "created_at", "updated_at", "listing"}

\* Meta.read_only_fields, plus the nested serializers declared read_only=True
EscrowSerializer_read_only_fields ==
    {"id", "buyer", "seller", "status", "tx_create", "tx_fund", "tx_release", "tx_refund",
     "created_at", "updated_at", "listing"}

\* ------------------------------------------------------------------ Escrow
\* the columns of an Escrow row that the views, serializers and helpers read or write
\* (onchain_id, contract_address, chain, metadata and created_at are stored as sent
\* and never read again)
Escrow_columns ==
    {"listing", "buyer", "seller", "amount", "raw_amount", "status", "tx_create", "tx_fund",
     "tx_release", "tx_refund", "updated_at"}

\* timezone.now(): the time of a row's creation, and at the time of a later request
CREATED == "created"
NOW == "now"

\* column defaults of the model (null=True columns default to NULL)
Escrow_defaults ==
    [listing |-> NoRow, buyer |-> NULL, seller |-> NULL, raw_amount |-> NULL,
     status |-> STATUS_AWAITING, tx_create |-> NULL, tx_fund |-> NULL,
     tx_release |-> NULL, tx_refund |-> NULL]

\* request bodies of POST escrows/: a function from the field names sent to their
\* values.  required says whether contract_address and amount are sent and valid.
EscrowBodies_plain ==
    {[listing_id |-> l, required |-> r] : l \in 1..MaxListings, r \in BOOLEAN}

\* ... with a raw_amount, which is writable
EscrowBodies_raw ==
    {Merge(b, [raw_amount |-> a]) : b \in EscrowBodies_plain, a \in RawAmounts}

\* ... with values for the read-only fields
EscrowBodies_forged ==
    {Merge(b, [buyer |-> u, seller |-> u, status |-> STATUS_COMPLETE, tx_create |-> h,
               tx_fund |-> h, tx_release |-> h, tx_refund |-> h])
        : b \in EscrowBodies_plain, u \in Users, h \in TxHashes}

EscrowBodies == EscrowBodies_plain \cup EscrowBodies_raw \cup EscrowBodies_forged

\* Serializer.is_valid: listing_id is required and must name a listing
\* (PrimaryKeyRelatedField over Listing.objects.all()); contract_address and amount
\* are required model fields; status, where writable, is a ChoiceField
EscrowSerializer_is_valid(body) ==
    /\ "listing_id" \in DOMAIN body
    /\ body.listing_id \in DOMAIN listings
    /\ body.required
    /\ ("status" \in DOMAIN body \ EscrowSerializer_read_only_fields
            => body.status \in STATUS_CHOICES)

\* validated_data: the writable fields that were sent, listing_id under its source
EscrowSerializer_validated_data(body) ==
    Merge(Restrict(body, (EscrowSerializer_Meta_fields \cap Escrow_columns)
                            \ EscrowSerializer_read_only_fields),
          [listing |-> body.listing_id])

EscrowSerializer_create_without_seller(validated_data, request_user) ==
    Merge(validated_data, [buyer |-> request_user])

\* EscrowSerializer.create, up to the model's create()
EscrowSerializer_create(validated_data, request_user) ==
    Merge(validated_data,
          [buyer |-> request_user, seller |-> listings[validated_data.listing].seller])

\* serializer.save(buyer=request.user) followed by Escrow.objects.create(**validated_data);
\* amount is the validated amount of the body, updated_at is set by auto_now
EscrowListCreateView_perform_create(body, request_user) ==
    Merge(Merge(Escrow_defaults, [amount |-> "1200.00", updated_at |-> CREATED]),
          EscrowSerializer_create(
              Merge(EscrowSerializer_validated_data(body), [buyer |-> request_user]),
              request_user))

\* EscrowSerializer.to_representation: the nested ListingSerializer is used, and its
\* fields are built, only when the escrow has a listing
EscrowSerializer_representable(row) ==
    /\ EscrowSerializer_builds
    /\ (row.listing # NoRow => ListingSerializer_builds)

\* Model.save(update_fields=...): only the named columns are written; an auto_now
\* column among them is written with the current time
save(row, obj, update_fields) ==
    [f \in DOMAIN row |->
        IF f \notin update_fields THEN row[f]
        ELSE IF f = "updated_at" THEN NOW
        ELSE obj[f]]

mark_funded_from_awaiting(self, tx_hash, raw_amount) ==
    IF self.status = STATUS_AWAITING
    THEN [self EXCEPT !.status = STATUS_FUNDED, !.tx_fund = tx_hash]
    ELSE self

mark_funded_always_raw(self, tx_hash, raw_amount) ==
    [self EXCEPT !.status = STATUS_FUNDED, !.tx_fund = tx_hash, !.raw_amount = raw_amount]

mark_funded(self, tx_hash, raw_amount) ==
    LET s == [self EXCEPT !.status = STATUS_FUNDED, !.tx_fund = tx_hash]
    IN  IF raw_amount \notin {NULL, ""} THEN [s EXCEPT !.raw_amount = raw_amount] ELSE s

mark_released_from_funded(self, tx_hash) ==
    IF self.status = STATUS_FUNDED
    THEN [self EXCEPT !.status = STATUS_COMPLETE, !.tx_release = tx_hash]
    ELSE self

mark_released(self, tx_hash) ==
    [self EXCEPT !.status = STATUS_COMPLETE, !.tx_release = tx_hash]

mark_refunded_as_refund(self, tx_hash) ==
    [self EXCEPT !.status = "REFUND", !.tx_refund = tx_hash]

mark_refunded(self, tx_hash) ==
    [self EXCEPT !.status = STATUS_REFUNDED, !.tx_refund = tx_hash]

\* ------------------------------------------------------------- permissions
\* permissions.IsAuthenticated
IsAuthenticated(user) == user # ANON

\* the users with is_staff set (no request sets it: createsuperuser does)
Admins == {"u3"}

\* permissions.IsAdminUser
IsAdminUser(user) == IsAuthenticated(user) /\ user \in Admins

\* -------------------------------------------------- callers of the helpers
MaxCallers == 2

\* what a caller holds: nothing yet, an instance read by Escrow.objects.get(pk=...),
\* or nothing any more, the call being over
NotLoaded == [pc |-> "idle", pk |-> NoRow, row |-> Escrow_defaults]

\* ------------------------------------------------------------------- state
Init ==
    /\ listings = <<>>
    /\ images = <<>>
    /\ imageSeq = 0
    /\ loaded = [c \in 1..MaxCallers |-> NotLoaded]
    /\ listingSeq = 0
    /\ orders = <<>>
    /\ orderSeq = 0
    /\ escrows = <<>>
    /\ events = <<>>
    /\ disputes = <<>>
    /\ users = <<>>
    /\ profiles = <<>>
    /\ registering = <<>>
    /\ outstanding = <<>>
    /\ blacklisted = {}
    /\ mailbox = {}
    /\ last = Op("init", ANON, NoRow, 0, {})

\* ------------------------------------------- helper methods, call by call
\* Escrow.objects.get(pk=pk): the caller's copy of the row as it is now
Escrow_objects_get(c, pk) ==
    /\ loaded[c].pc = "idle"
    /\ pk \in DOMAIN escrows
    /\ loaded' = [loaded EXCEPT ![c] = [pc |-> "loaded", pk |-> pk, row |-> escrows[pk]]]
    /\ last' = Op("Escrow.objects.get", NULL, pk, 0, {})
    /\ UNCHANGED <<listings, listingSeq, orders, orderSeq, escrows, events, disputes,
                   imageVars, accountVars>>

\* instance.mark_funded(tx_hash, raw_amount) on the caller's copy: the copy's values
\* of the columns named in update_fields are written over the stored row
Escrow_instance_mark_funded(c, tx_hash, raw_amount) ==
    /\ loaded[c].pc = "loaded"
    /\ loaded[c].pk \in DOMAIN escrows
    /\ escrows' = [escrows EXCEPT ![loaded[c].pk] =
                      save(@, mark_funded(loaded[c].row, tx_hash, raw_amount),
                           {"status", "tx_fund", "raw_amount", "updated_at"})]
    /\ loaded' = [loaded EXCEPT ![c] = [NotLoaded EXCEPT !.pc = "done"]]
    /\ last' = Op("instance.mark_funded", NULL, loaded[c].pk, 0, {})
    /\ UNCHANGED <<listings, listingSeq, orders, orderSeq, events, disputes, imageVars,
                   accountVars>>

Escrow_instance_mark_released(c, tx_hash) ==
    /\ loaded[c].pc = "loaded"
    /\ loaded[c].pk \in DOMAIN escrows
    /\ escrows' = [escrows EXCEPT ![loaded[c].pk] =
                      save(@, mark_released(loaded[c].row, tx_hash),
                           {"status", "tx_release", "updated_at"})]
    /\ loaded' = [loaded EXCEPT ![c] = [NotLoaded EXCEPT !.pc = "done"]]
    /\ last' = Op("instance.mark_released", NULL, loaded[c].pk, 0, {})
    /\ UNCHANGED <<listings, listingSeq, orders, orderSeq, events, disputes, imageVars,
                   accountVars>>

Escrow_instance_mark_refunded(c, tx_hash) ==
    /\ loaded[c].pc = "loaded"
    /\ loaded[c].pk \in DOMAIN escrows
    /\ escrows' = [escrows EXCEPT ![loaded[c].pk] =
                      save(@, mark_refunded(loaded[c].row, tx_hash),
                           {"status", "tx_refund", "updated_at"})]
    /\ loaded' = [loaded EXCEPT ![c] = [NotLoaded EXCEPT !.pc = "done"]]
    /\ last' = Op("instance.mark_refunded", NULL, loaded[c].pk, 0, {})
    /\ UNCHANGED <<listings, listingSeq, orders, orderSeq, events, disputes, imageVars,
                   accountVars>>

\* ---------------------------------------------------- model-level operations
\* Listing.objects.create(seller=...): the only way a listing comes to exist, as
\* POST listings/ cannot build its serializer
Listing_objects_create(seller) ==
    /\ listingSeq < MaxListings
    /\ listingSeq' = listingSeq + 1
    /\ listings' = Merge(listings, [k \in {listingSeq + 1} |-> [seller |-> seller]])
    /\ last' = Op("Listing.objects.create", seller, listingSeq + 1, 0, {})
    /\ UNCHANGED <<orders, orderSeq, escrows, events, disputes, imageVars, loaded, accountVars>>

\* escrow.mark_funded(tx_hash, raw_amount) on a freshly loaded escrow
Escrow_mark_funded(pk, tx_hash, raw_amount) ==
    /\ pk \in DOMAIN escrows
    /\ escrows' = [escrows EXCEPT ![pk] =
                      save(@, mark_funded(@, tx_hash, raw_amount),
                           {"status", "tx_fund", "raw_amount", "updated_at"})]
    /\ last' = [Op("mark_funded", NULL, pk, 0, {}) EXCEPT
                   !.prev = Restrict(escrows[pk], DOMAIN NoPrev)]
    /\ UNCHANGED <<listings, listingSeq, orders, orderSeq, events, disputes, imageVars, loaded, accountVars>>

Escrow_mark_released(pk, tx_hash) ==
    /\ pk \in DOMAIN escrows
    /\ escrows' = [escrows EXCEPT ![pk] =
                      save(@, mark_released(@, tx_hash),
                           {"status", "tx_release", "updated_at"})]
    /\ last' = [Op("mark_released", NULL, pk, 0, {}) EXCEPT
                   !.prev = Restrict(escrows[pk], DOMAIN NoPrev)]
    /\ UNCHANGED <<listings, listingSeq, orders, orderSeq, events, disputes, imageVars, loaded, accountVars>>

Escrow_mark_refunded(pk, tx_hash) ==
    /\ pk \in DOMAIN escrows
    /\ escrows' = [escrows EXCEPT ![pk] =
                      save(@, mark_refunded(@, tx_hash),
                           {"status", "tx_refund", "updated_at"})]
    /\ last' = [Op("mark_refunded", NULL, pk, 0, {}) EXCEPT
                   !.prev = Restrict(escrows[pk], DOMAIN NoPrev)]
    /\ UNCHANGED <<listings, listingSeq, orders, orderSeq, events, disputes, imageVars, loaded, accountVars>>

\* ------------------------------------------------------------ escrows/ views
EscrowListCreateView_get_queryset(user) ==
    {e \in DOMAIN escrows : escrows[e].buyer = user \/ escrows[e].seller = user}

EscrowDetailView_get_queryset(user) ==
    {e \in DOMAIN escrows : escrows[e].buyer = user \/ escrows[e].seller = user}

\* GET escrows/
EscrowListCreateView_get(user) ==
    /\ last' =
         IF ~IsAuthenticated(user) THEN Op("GET escrows/", user, NoRow, 401, {})
         ELSE LET qs == EscrowListCreateView_get_queryset(user)
              IN  IF \A e \in qs : EscrowSerializer_representable(escrows[e])
                  THEN Op("GET escrows/", user, NoRow, 200, qs)
                  ELSE Op("GET escrows/", user, NoRow, 500, {})
    /\ UNCHANGED <<listings, listingSeq, orders, orderSeq, escrows, events, disputes, imageVars, loaded, accountVars>>

\* POST escrows/: the row is saved by perform_create before the response is rendered
EscrowListCreateView_post(user, body) ==
    /\ Cardinality(DOMAIN escrows) < MaxEscrows
    /\ IF ~IsAuthenticated(user)
       THEN /\ last' = Op("POST escrows/", user, NoRow, 401, {})
            /\ UNCHANGED escrows
       ELSE IF ~EscrowSerializer_builds
       THEN /\ last' = Op("POST escrows/", user, NoRow, 500, {})
            /\ UNCHANGED escrows
       ELSE IF ~EscrowSerializer_is_valid(body)
       THEN /\ last' = Op("POST escrows/", user, NoRow, 400, {})
            /\ UNCHANGED escrows
       ELSE LET pk == Cardinality(DOMAIN escrows) + 1
                row == Restrict(EscrowListCreateView_perform_create(body, user),
                                Escrow_columns)
            IN  /\ escrows' = Merge(escrows, [k \in {pk} |-> row])
                /\ last' = [Op("POST escrows/", user, pk,
                                IF EscrowSerializer_representable(row) THEN 201 ELSE 500,
                                IF EscrowSerializer_representable(row) THEN {pk} ELSE {})
                             EXCEPT !.sent = DOMAIN body]
    /\ UNCHANGED <<listings, listingSeq, orders, orderSeq, events, disputes, imageVars, loaded, accountVars>>

\* RetrieveAPIView.get of EscrowDetailView, reached as escrows/<pk>/ and, by
\* urlpatterns, as escrow-events/<pk>/ as well
EscrowDetailView_get(user, path, pk) ==
    /\ last' =
         IF ~IsAuthenticated(user) THEN Op(path, user, pk, 401, {})
         ELSE IF pk \notin EscrowDetailView_get_queryset(user) THEN Op(path, user, pk, 404, {})
         ELSE IF EscrowSerializer_representable(escrows[pk]) THEN Op(path, user, pk, 200, {pk})
         ELSE Op(path, user, pk, 500, {})
    /\ UNCHANGED <<listings, listingSeq, orders, orderSeq, escrows, events, disputes, imageVars, loaded, accountVars>>

\* ---------------------------------------------------------------- routing
\* marketplace/urls.py: the view class each path is routed to
urlpatterns ==
    [listing_images |-> "ListingImageListCreateView",
     listing_images_pk |-> "ListingImageDetailView",
     listings |-> "ListingListCreateView",
     listings_pk |-> "ListingDetailView",
     orders |-> "OrderListCreateView",
     orders_pk |-> "OrderDetailView",
     escrows |-> "EscrowListCreateView",
     escrows_pk |-> "EscrowDetailView",
     dispute |-> "DisputeCreateView",
     disputes_pk |-> "DisputeCreateView",
     escrow_events |-> "EscrowEventListView",
     escrow_events_pk |-> "EscrowDetailView"]

\* the generic class each view derives from
ViewBase ==
    [ListingImageListCreateView |-> "ListCreateAPIView",
     ListingImageDetailView |-> "RetrieveUpdateDestroyAPIView",
     ListingListCreateView |-> "ListCreateAPIView",
     ListingDetailView |-> "RetrieveUpdateDestroyAPIView",
     OrderListCreateView |-> "ListCreateAPIView",
     OrderDetailView |-> "RetrieveUpdateDestroyAPIView",
     EscrowListCreateView |-> "ListCreateAPIView",
     EscrowDetailView |-> "RetrieveAPIView",
     EscrowEventListView |-> "ListAPIView",
     DisputeCreateView |-> "CreateAPIView",
     DisputeUpdateView |-> "UpdateAPIView"]

\* permission_classes of each view
ViewPermission ==
    [ListingImageListCreateView |-> "IsAuthenticatedOrReadOnly",
     ListingImageDetailView |-> "IsAuthenticatedOrReadOnly",
     ListingListCreateView |-> "IsAuthenticatedOrReadOnly",
     ListingDetailView |-> "IsAuthenticatedOrReadOnly",
     OrderListCreateView |-> "IsAuthenticated",
     OrderDetailView |-> "IsAuthenticated",
     EscrowListCreateView |-> "IsAuthenticated",
     EscrowDetailView |-> "IsAuthenticated",
     EscrowEventListView |-> "IsAuthenticated",
     DisputeCreateView |-> "IsAuthenticated",
     DisputeUpdateView |-> "IsAdminUser"]

HttpMethods == {"GET", "POST", "PUT", "PATCH", "DELETE"}
SAFE_METHODS == {"GET"}

\* the handlers the generic classes of rest_framework.generics define
GenericMethods(base) ==
    CASE base = "ListCreateAPIView" -> {"GET", "POST"}
      [] base = "ListAPIView" -> {"GET"}
      [] base = "CreateAPIView" -> {"POST"}
      [] base = "RetrieveAPIView" -> {"GET"}
      [] base = "UpdateAPIView" -> {"PUT", "PATCH"}
      [] base = "RetrieveUpdateDestroyAPIView" -> {"GET", "PUT", "PATCH", "DELETE"}

Allows(path, method) == method \in GenericMethods(ViewBase[urlpatterns[path]])

\* APIView.initial: check_permissions, run before the handler is looked up
HasPermission(path, method, user) ==
    CASE ViewPermission[urlpatterns[path]] = "IsAuthenticated" -> IsAuthenticated(user)
      [] ViewPermission[urlpatterns[path]] = "IsAuthenticatedOrReadOnly" ->
            method \in SAFE_METHODS \/ IsAuthenticated(user)
      [] ViewPermission[urlpatterns[path]] = "IsAdminUser" -> IsAdminUser(user)
      [] OTHER -> FALSE

\* APIView.http_method_not_allowed: a method the routed view has no handler for
MethodNotAllowed(user, path, method, pk) ==
    /\ ~Allows(path, method)
    /\ last' = IF ~HasPermission(path, method, user)
               THEN Op("not allowed", user, pk, 401, {})
               ELSE Op("not allowed", user, pk, 405, {})
    /\ UNCHANGED <<listings, listingSeq, orders, orderSeq, escrows, events, disputes, imageVars, loaded, accountVars>>

\* ------------------------------------------------------------- on_delete
Order_listing_on_delete == "CASCADE"
Escrow_listing_on_delete_cascade == "CASCADE"
Escrow_listing_on_delete == "SET_NULL"
Order_escrow_on_delete == "SET_NULL"
EscrowEvent_escrow_on_delete == "CASCADE"
Dispute_escrow_on_delete == "CASCADE"

\* what Listing.delete() collects: the rows that go with the listing
DeletedEscrows(pk) ==
    IF Escrow_listing_on_delete = "CASCADE"
    THEN {e \in DOMAIN escrows : escrows[e].listing = pk}
    ELSE {}

DeletedOrders(pk) ==
    IF Order_listing_on_delete = "CASCADE"
    THEN {o \in DOMAIN orders : orders[o].listing = pk}
    ELSE {}

\* Listing.delete(): the tables after the delete and its cascade
Listing_delete(pk) ==
    /\ listings' = Without(listings, {pk})
    /\ orders' =
         [o \in DOMAIN orders \ DeletedOrders(pk) |->
            IF orders[o].escrow \in DeletedEscrows(pk) /\ Order_escrow_on_delete = "SET_NULL"
            THEN [orders[o] EXCEPT !.escrow = NoRow]
            ELSE orders[o]]
    /\ escrows' =
         [e \in DOMAIN escrows \ DeletedEscrows(pk) |->
            IF escrows[e].listing = pk /\ Escrow_listing_on_delete = "SET_NULL"
            THEN [escrows[e] EXCEPT !.listing = NoRow]
            ELSE escrows[e]]
    /\ events' =
         Without(events,
                 IF EscrowEvent_escrow_on_delete = "CASCADE"
                 THEN {v \in DOMAIN events : events[v].escrow \in DeletedEscrows(pk)}
                 ELSE {})
    /\ disputes' =
         Without(disputes,
                 IF Dispute_escrow_on_delete = "CASCADE"
                 THEN {d \in DOMAIN disputes : disputes[d].escrow \in DeletedEscrows(pk)}
                 ELSE {})

\* ----------------------------------------------------------- listings/ views
\* a body of POST/PUT listings/: required says whether title and price are sent
ListingBodies ==
    {[required |-> r] : r \in BOOLEAN}
      \cup {[required |-> r, seller |-> s] : r \in BOOLEAN, s \in Users}

\* GET listings/: an empty list is rendered without building the child's fields
ListingListCreateView_get(user) ==
    /\ last' = IF DOMAIN listings = {} \/ ListingSerializer_builds
               THEN Op("GET listings/", user, NoRow, 200, DOMAIN listings)
               ELSE Op("GET listings/", user, NoRow, 500, {})
    /\ UNCHANGED <<listings, listingSeq, orders, orderSeq, escrows, events, disputes, imageVars, loaded, accountVars>>

\* POST listings/: is_valid() builds the serializer's fields first
ListingListCreateView_post(user, body) ==
    /\ IF ~HasPermission("listings", "POST", user)
       THEN /\ last' = Op("POST listings/", user, NoRow, 401, {})
            /\ UNCHANGED <<listings, listingSeq>>
       ELSE IF ~ListingSerializer_builds
       THEN /\ last' = Op("POST listings/", user, NoRow, 500, {})
            /\ UNCHANGED <<listings, listingSeq>>
       ELSE IF ~body.required
       THEN /\ last' = Op("POST listings/", user, NoRow, 400, {})
            /\ UNCHANGED <<listings, listingSeq>>
       ELSE /\ listingSeq < MaxListings
            /\ listingSeq' = listingSeq + 1
            /\ listings' = Merge(listings, [k \in {listingSeq + 1} |-> [seller |-> user]])
            /\ last' = Op("POST listings/", user, listingSeq + 1, 201, {listingSeq + 1})
    /\ UNCHANGED <<orders, orderSeq, escrows, events, disputes, imageVars, loaded, accountVars>>

\* GET listings/<pk>/
ListingDetailView_get(user, pk) ==
    /\ last' = IF pk \notin DOMAIN listings THEN Op("GET listings/<pk>/", user, pk, 404, {})
               ELSE IF ListingSerializer_builds
               THEN Op("GET listings/<pk>/", user, pk, 200, {pk})
               ELSE Op("GET listings/<pk>/", user, pk, 500, {})
    /\ UNCHANGED <<listings, listingSeq, orders, orderSeq, escrows, events, disputes, imageVars, loaded, accountVars>>

\* PUT and PATCH listings/<pk>/: seller is read-only, and no other column of a
\* listing is read by anything else, so a successful update leaves the tables as
\* they are
ListingDetailView_update(user, method, pk, body) ==
    /\ method \in {"PUT", "PATCH"}
    /\ last' = IF ~HasPermission("listings_pk", method, user)
               THEN Op("PUT listings/<pk>/", user, pk, 401, {})
               ELSE IF pk \notin DOMAIN listings THEN Op("PUT listings/<pk>/", user, pk, 404, {})
               ELSE IF ~ListingSerializer_builds THEN Op("PUT listings/<pk>/", user, pk, 500, {})
               ELSE IF method = "PUT" /\ ~body.required
               THEN Op("PUT listings/<pk>/", user, pk, 400, {})
               ELSE Op("PUT listings/<pk>/", user, pk, 200, {pk})
    /\ UNCHANGED <<listings, listingSeq, orders, orderSeq, escrows, events, disputes, imageVars, loaded, accountVars>>

\* DELETE listings/<pk>/: DestroyModelMixin.destroy uses no serializer
ListingDetailView_delete(user, pk) ==
    /\ IF ~HasPermission("listings_pk", "DELETE", user)
       THEN /\ last' = Op("DELETE listings/<pk>/", user, pk, 401, {})
            /\ UNCHANGED <<listings, orders, escrows, events, disputes>>
       ELSE IF pk \notin DOMAIN listings
       THEN /\ last' = Op("DELETE listings/<pk>/", user, pk, 404, {})
            /\ UNCHANGED <<listings, orders, escrows, events, disputes>>
       ELSE /\ Listing_delete(pk)
            /\ last' = Op("DELETE listings/<pk>/", user, pk, 204, {})
    /\ images' = Without(images, {i \in DOMAIN images : images[i].listing \notin DOMAIN listings'})
    /\ UNCHANGED <<listingSeq, orderSeq, imageSeq, loaded, accountVars>>

\* ----------------------------------------------------- listing-images/ views
MaxImages == 1

\* ListingImage.objects.create(listing=..., image=..., order=...): the only way an
\* image row comes to exist, as POST listing-images/ saves without a listing
ListingImage_objects_create(listing, order) ==
    /\ listing \in DOMAIN listings
    /\ imageSeq < MaxImages
    /\ imageSeq' = imageSeq + 1
    /\ images' = Merge(images, [k \in {imageSeq + 1} |->
                                  [listing |-> listing, image |-> "a.jpg", order |-> order]])
    /\ last' = Op("ListingImage.objects.create", NULL, imageSeq + 1, 0, {})
    /\ UNCHANGED <<listings, listingSeq, orders, orderSeq, escrows, events, disputes,
                   loaded, accountVars>>

\* bodies of POST/PUT/PATCH listing-images/: image and order, each sent or not
ListingImageBodies ==
    {<<>>, [image |-> "b.jpg"], [order |-> 1], [image |-> "b.jpg", order |-> 1]}

\* ListingImageSerializer.is_valid: image is required unless the update is partial;
\* order has the model's default
ListingImageSerializer_is_valid(body, partial) == partial \/ "image" \in DOMAIN body

\* GET listing-images/
ListingImageListCreateView_get(user) ==
    /\ last' = Op("GET listing-images/", user, NoRow, 200, DOMAIN images)
    /\ UNCHANGED <<marketVars, accountVars>>

\* POST listing-images/: serializer.save() inserts a row without a listing, and the
\* column is NOT NULL: IntegrityError
ListingImageListCreateView_post(user, body) ==
    /\ last' = IF ~HasPermission("listing_images", "POST", user)
               THEN Op("POST listing-images/", user, NoRow, 401, {})
               ELSE IF ~ListingImageSerializer_is_valid(body, FALSE)
               THEN Op("POST listing-images/", user, NoRow, 400, {})
               ELSE Op("POST listing-images/", user, NoRow, 500, {})
    /\ UNCHANGED <<marketVars, accountVars>>

\* GET listing-images/<pk>/
ListingImageDetailView_get(user, pk) ==
    /\ last' = IF pk \notin DOMAIN images
               THEN Op("GET listing-images/<pk>/", user, pk, 404, {})
               ELSE Op("GET listing-images/<pk>/", user, pk, 200, {pk})
    /\ UNCHANGED <<marketVars, accountVars>>

\* PUT and PATCH listing-images/<pk>/
ListingImageDetailView_update(user, method, pk, body) ==
    /\ method \in {"PUT", "PATCH"}
    /\ IF ~HasPermission("listing_images_pk", method, user)
       THEN /\ last' = Op("PUT listing-images/<pk>/", user, pk, 401, {})
            /\ UNCHANGED images
       ELSE IF pk \notin DOMAIN images
       THEN /\ last' = Op("PUT listing-images/<pk>/", user, pk, 404, {})
            /\ UNCHANGED images
       ELSE IF ~ListingImageSerializer_is_valid(body, method = "PATCH")
       THEN /\ last' = Op("PUT listing-images/<pk>/", user, pk, 400, {})
            /\ UNCHANGED images
       ELSE /\ images' = [images EXCEPT ![pk] = Merge(@, body)]
            /\ last' = Op("PUT listing-images/<pk>/", user, pk, 200, {pk})
    /\ UNCHANGED <<listings, listingSeq, orders, orderSeq, escrows, events, disputes,
                   imageSeq, loaded, accountVars>>

\* DELETE listing-images/<pk>/
ListingImageDetailView_delete(user, pk) ==
    /\ IF ~HasPermission("listing_images_pk", "DELETE", user)
       THEN /\ last' = Op("DELETE listing-images/<pk>/", user, pk, 401, {})
            /\ UNCHANGED images
       ELSE IF pk \notin DOMAIN images
       THEN /\ last' = Op("DELETE listing-images/<pk>/", user, pk, 404, {})
            /\ UNCHANGED images
       ELSE /\ images' = Without(images, {pk})
            /\ last' = Op("DELETE listing-images/<pk>/", user, pk, 204, {})
    /\ UNCHANGED <<listings, listingSeq, orders, orderSeq, escrows, events, disputes,
                   imageSeq, loaded, accountVars>>

\* ------------------------------------------------------------- orders/ views
Order_attrs ==
    {"id", "buyer", "listing", "shipping_address", "phone_number", "quantity", "status",
     "escrow", "created_at", "updated_at"}

OrderSerializer_declared == {"buyer", "listing", "listing_id"}

OrderSerializer_Meta_fields ==
    {"id", "buyer", "listing", "listing_id", "status", "created_at", "updated_at"}

OrderSerializer_builds ==
    SerializerBuilds(OrderSerializer_declared, OrderSerializer_Meta_fields, Order_attrs)

\* the read-only fields had buyer not been declared read_only=True
OrderSerializer_read_only_fields_buyer_writable == {"id", "created_at", "updated_at", "listing"}

\* Meta.read_only_fields, plus the nested serializers declared read_only=True
OrderSerializer_read_only_fields == {"id", "created_at", "updated_at", "buyer", "listing"}

Order_defaults == [buyer |-> NULL, listing |-> NoRow, status |-> "pending", escrow |-> NoRow]

\* bodies of POST/PUT/PATCH orders/: any of listing_id, status and a forged buyer
OrderBodies ==
    LET ls == {[listing_id |-> l] : l \in 1..MaxListings}
        st == {[status |-> x] : x \in {"paid", "cancelled", "bogus"}}
        by == {[buyer |-> b] : b \in Users}
    IN  {<<>>} \cup ls \cup st \cup {Merge(l, x) : l \in ls, x \in st}
          \cup {Merge(l, b) : l \in ls, b \in by}

\* is_valid: listing_id must name a listing and is required unless the update is
\* partial; status is a ChoiceField over Order.STATUS_CHOICES
OrderSerializer_is_valid(body, partial) ==
    /\ (~partial => "listing_id" \in DOMAIN body)
    /\ ("listing_id" \in DOMAIN body => body.listing_id \in DOMAIN listings)
    /\ ("status" \in DOMAIN body => body.status \in ORDER_STATUS_CHOICES)

\* validated_data: the writable fields that were sent, listing_id under its source
OrderSerializer_validated_data(body) ==
    Merge(Restrict(body, (OrderSerializer_Meta_fields \cap DOMAIN Order_defaults)
                            \ OrderSerializer_read_only_fields),
          IF "listing_id" \in DOMAIN body THEN [listing |-> body.listing_id] ELSE <<>>)

\* OrderSerializer.create
OrderSerializer_create(validated_data, request_user) ==
    Merge(Order_defaults, Merge(validated_data, [buyer |-> request_user]))

\* OrderSerializer.to_representation: the nested ListingSerializer renders the
\* order's listing, which is never NULL
OrderSerializer_representable(row) == OrderSerializer_builds /\ ListingSerializer_builds

OrderListCreateView_get_queryset(user) ==
    {o \in DOMAIN orders :
        orders[o].buyer = user \/ listings[orders[o].listing].seller = user}

\* OrderDetailView.queryset: Order.objects.all(), whoever asks
OrderDetailView_queryset(user) == DOMAIN orders

\* GET orders/
OrderListCreateView_get(user) ==
    /\ last' =
         IF ~HasPermission("orders", "GET", user) THEN Op("GET orders/", user, NoRow, 401, {})
         ELSE LET qs == OrderListCreateView_get_queryset(user)
              IN  IF \A o \in qs : OrderSerializer_representable(orders[o])
                  THEN Op("GET orders/", user, NoRow, 200, qs)
                  ELSE Op("GET orders/", user, NoRow, 500, {})
    /\ UNCHANGED <<listings, listingSeq, orders, orderSeq, escrows, events, disputes, imageVars, loaded, accountVars>>

\* POST orders/: the row is saved by perform_create before the response is rendered
OrderListCreateView_post(user, body) ==
    /\ IF ~HasPermission("orders", "POST", user)
       THEN /\ last' = Op("POST orders/", user, NoRow, 401, {})
            /\ UNCHANGED <<orders, orderSeq>>
       ELSE IF ~OrderSerializer_builds
       THEN /\ last' = Op("POST orders/", user, NoRow, 500, {})
            /\ UNCHANGED <<orders, orderSeq>>
       ELSE IF ~OrderSerializer_is_valid(body, FALSE)
       THEN /\ last' = Op("POST orders/", user, NoRow, 400, {})
            /\ UNCHANGED <<orders, orderSeq>>
       ELSE LET pk == orderSeq + 1
                row == OrderSerializer_create(OrderSerializer_validated_data(body), user)
            IN  /\ orderSeq < MaxOrders
                /\ orderSeq' = pk
                /\ orders' = Merge(orders, [k \in {pk} |-> row])
                /\ last' = IF OrderSerializer_representable(row)
                           THEN Op("POST orders/", user, pk, 201, {pk})
                           ELSE Op("POST orders/", user, pk, 500, {})
    /\ UNCHANGED <<listings, listingSeq, escrows, events, disputes, imageVars, loaded, accountVars>>

\* GET orders/<pk>/
OrderDetailView_get(user, pk) ==
    /\ last' =
         IF ~HasPermission("orders_pk", "GET", user)
         THEN Op("GET orders/<pk>/", user, pk, 401, {})
         ELSE IF pk \notin OrderDetailView_queryset(user)
         THEN Op("GET orders/<pk>/", user, pk, 404, {})
         ELSE IF OrderSerializer_representable(orders[pk])
         THEN Op("GET orders/<pk>/", user, pk, 200, {pk})
         ELSE Op("GET orders/<pk>/", user, pk, 500, {})
    /\ UNCHANGED <<listings, listingSeq, orders, orderSeq, escrows, events, disputes, imageVars, loaded, accountVars>>

\* PUT and PATCH orders/<pk>/: perform_update saves before the response is rendered
OrderDetailView_update(user, method, pk, body) ==
    /\ method \in {"PUT", "PATCH"}
    /\ IF ~HasPermission("orders_pk", method, user)
       THEN /\ last' = Op("PUT orders/<pk>/", user, pk, 401, {})
            /\ UNCHANGED orders
       ELSE IF pk \notin OrderDetailView_queryset(user)
       THEN /\ last' = Op("PUT orders/<pk>/", user, pk, 404, {})
            /\ UNCHANGED orders
       ELSE IF ~OrderSerializer_builds
       THEN /\ last' = Op("PUT orders/<pk>/", user, pk, 500, {})
            /\ UNCHANGED orders
       ELSE IF ~OrderSerializer_is_valid(body, method = "PATCH")
       THEN /\ last' = Op("PUT orders/<pk>/", user, pk, 400, {})
            /\ UNCHANGED orders
       ELSE LET row == Merge(orders[pk], OrderSerializer_validated_data(body))
            IN  /\ orders' = [orders EXCEPT ![pk] = row]
                /\ last' = IF OrderSerializer_representable(row)
                           THEN Op("PUT orders/<pk>/", user, pk, 200, {pk})
                           ELSE Op("PUT orders/<pk>/", user, pk, 500, {})
    /\ UNCHANGED <<listings, listingSeq, orderSeq, escrows, events, disputes, imageVars, loaded, accountVars>>

\* DELETE orders/<pk>/: no row references an order, so nothing cascades
OrderDetailView_delete(user, pk) ==
    /\ IF ~HasPermission("orders_pk", "DELETE", user)
       THEN /\ last' = Op("DELETE orders/<pk>/", user, pk, 401, {})
            /\ UNCHANGED orders
       ELSE IF pk \notin OrderDetailView_queryset(user)
       THEN /\ last' = Op("DELETE orders/<pk>/", user, pk, 404, {})
            /\ UNCHANGED orders
       ELSE /\ orders' = Without(orders, {pk})
            /\ last' = Op("DELETE orders/<pk>/", user, pk, 204, {})
    /\ UNCHANGED <<listings, listingSeq, orderSeq, escrows, events, disputes, imageVars, loaded, accountVars>>

\* ------------------------------------------------------------ escrow events
EscrowEvent_attrs ==
    {"id", "escrow", "event_type", "tx_hash", "block_number", "payload", "description",
     "created_at", "get_event_type_display"}

EscrowEventSerializer_declared == {"event_type_display"}

EscrowEventSerializer_Meta_fields ==
    {"id", "escrow", "event_type", "event_type_display", "tx_hash", "block_number",
     "payload", "created_at"}

EscrowEventSerializer_builds ==
    SerializerBuilds(EscrowEventSerializer_declared, EscrowEventSerializer_Meta_fields,
                     EscrowEvent_attrs)

\* the event types the indexer is taken to record here
RecordedEventTypes == {"payment_secured", "released"}

\* EscrowEvent.objects.create(...): no view creates an event
EscrowEvent_objects_create(escrow, event_type, tx_hash) ==
    /\ Cardinality(DOMAIN events) < MaxEvents
    /\ escrow \in DOMAIN escrows
    /\ event_type \in EVENT_TYPES
    /\ LET pk == Cardinality(DOMAIN events) + 1
       IN  /\ events' = Merge(events,
                              [k \in {pk} |-> [escrow |-> escrow, event_type |-> event_type,
                                               tx_hash |-> tx_hash]])
           /\ last' = Op("EscrowEvent.objects.create", NULL, pk, 0, {})
    /\ UNCHANGED <<listings, listingSeq, orders, orderSeq, escrows, disputes, imageVars, loaded, accountVars>>

EscrowEventListView_get_queryset(user, user_only) ==
    IF user_only
    THEN {v \in DOMAIN events :
             escrows[events[v].escrow].buyer = user \/ escrows[events[v].escrow].seller = user}
    ELSE DOMAIN events

\* GET escrow-events/ and GET escrow-events/?user_only=true
EscrowEventListView_get(user, user_only) ==
    /\ last' =
         IF ~HasPermission("escrow_events", "GET", user)
         THEN Op("GET escrow-events/", user, NoRow, 401, {})
         ELSE IF EscrowEventSerializer_builds
         THEN Op("GET escrow-events/", user, NoRow, 200,
                 EscrowEventListView_get_queryset(user, user_only))
         ELSE Op("GET escrow-events/", user, NoRow, 500, {})
    /\ UNCHANGED <<listings, listingSeq, orders, orderSeq, escrows, events, disputes, imageVars, loaded, accountVars>>

\* ----------------------------------------------------------------- disputes
Dispute_attrs ==
    {"id", "escrow", "raised_by", "reason", "evidence", "is_resolved", "resolution_note",
     "resolved_by", "resolved_at", "created_at"}

DisputeSerializer_declared == {"buyer", "order"}

DisputeSerializer_Meta_fields ==
    {"id", "buyer", "order", "reason", "description", "status", "created_at", "resolved_at"}

DisputeSerializer_builds ==
    SerializerBuilds(DisputeSerializer_declared, DisputeSerializer_Meta_fields, Dispute_attrs)

Dispute_escrow_not_unique == FALSE

\* escrow = OneToOneField(Escrow): the column carries a unique constraint
Dispute_escrow_unique == TRUE

\* Dispute.objects.create(escrow=..., raised_by=..., reason=...): an IntegrityError
\* when the unique constraint on escrow is violated, and then no row is written
Dispute_objects_create(escrow, raised_by) ==
    /\ Cardinality(DOMAIN disputes) < MaxDisputes
    /\ escrow \in DOMAIN escrows
    /\ LET pk == Cardinality(DOMAIN disputes) + 1
       IN  IF Dispute_escrow_unique /\ \E d \in DOMAIN disputes : disputes[d].escrow = escrow
           THEN /\ last' = Op("Dispute.objects.create", raised_by, escrow, 0, {})
                /\ UNCHANGED disputes
           ELSE /\ disputes' =
                     Merge(disputes,
                           [k \in {pk} |-> [escrow |-> escrow, raised_by |-> raised_by,
                                            is_resolved |-> FALSE, resolved_at |-> NULL]])
                /\ last' = Op("Dispute.objects.create", raised_by, escrow, 0, {pk})
    /\ UNCHANGED <<listings, listingSeq, orders, orderSeq, escrows, events, imageVars, loaded, accountVars>>

\* POST dispute/ and POST disputes/<pk>/: CreateModelMixin.create calls is_valid(),
\* which builds the serializer's fields
DisputeCreateView_post(user, path) ==
    /\ path \in {"dispute", "disputes_pk"}
    /\ last' = IF ~HasPermission(path, "POST", user)
               THEN Op("POST dispute/", user, NoRow, 401, {})
               ELSE IF ~DisputeSerializer_builds
               THEN Op("POST dispute/", user, NoRow, 500, {})
               ELSE Op("POST dispute/", user, NoRow, 400, {})
    /\ UNCHANGED <<listings, listingSeq, orders, orderSeq, escrows, events, disputes, imageVars, loaded, accountVars>>

\* DisputeUpdateSerializer: no declared field; Meta.fields names status and
\* resolution_notes, which Dispute does not have (its column is resolution_note)
DisputeUpdateSerializer_declared == {}

DisputeUpdateSerializer_Meta_fields == {"status", "resolution_notes", "resolved_at"}

DisputeUpdateSerializer_read_only_fields == {"resolved_at"}

DisputeUpdateSerializer_builds ==
    SerializerBuilds(DisputeUpdateSerializer_declared, DisputeUpdateSerializer_Meta_fields,
                     Dispute_attrs)

\* bodies of a dispute update
DisputeUpdateBodies ==
    {[status |-> "resolved"], [status |-> "open"], [resolution_notes |-> "agreed"],
     [status |-> "resolved", resolved_at |-> "2020-01-01"]}

\* DisputeUpdateSerializer.update(instance, validated_data), up to the columns kept
DisputeUpdateSerializer_update(instance, validated_data) ==
    IF "status" \in DOMAIN validated_data /\ validated_data.status = "resolved"
    THEN [instance EXCEPT !.resolved_at = NOW]
    ELSE instance

\* UpdateAPIView.put / patch of DisputeUpdateView, as the view class answers when it
\* is called; no path of urlpatterns leads to it.  check_permissions, get_object,
\* then is_valid(), which builds the serializer's fields
DisputeUpdateView_update(user, method, pk, body) ==
    /\ method \in GenericMethods(ViewBase.DisputeUpdateView)
    /\ LET answer(code) ==
             Merge(Op("DisputeUpdateView.update", user, pk, code, {}), [request |-> body])
       IN  IF ~IsAuthenticated(user)
           THEN last' = answer(401) /\ UNCHANGED disputes
           ELSE IF ~IsAdminUser(user)
           THEN last' = answer(403) /\ UNCHANGED disputes
           ELSE IF pk \notin DOMAIN disputes
           THEN last' = answer(404) /\ UNCHANGED disputes
           ELSE IF ~DisputeUpdateSerializer_builds
           THEN last' = answer(500) /\ UNCHANGED disputes
           ELSE /\ disputes' =
                     [disputes EXCEPT ![pk] =
                         DisputeUpdateSerializer_update(
                             @, Restrict(body, DisputeUpdateSerializer_Meta_fields
                                                 \ DisputeUpdateSerializer_read_only_fields))]
                /\ last' = answer(200)
    /\ UNCHANGED <<listings, listingSeq, orders, orderSeq, escrows, events, imageVars, loaded, accountVars>>

\* PUT / PATCH disputes/<pk>/ (name="dispute-detail-update"), dispatched to the view
\* that urlpatterns routes the path to
dispute_detail_update(user, method, pk, body) ==
    /\ method \in {"PUT", "PATCH"}
    /\ IF Allows("disputes_pk", method)
       THEN /\ urlpatterns.disputes_pk = "DisputeUpdateView"
            /\ DisputeUpdateView_update(user, method, pk, body)
       ELSE MethodNotAllowed(user, "disputes_pk", method, pk)

\* the paths with a pk and those without
PkPaths == {"listing_images_pk", "listings_pk", "orders_pk", "escrows_pk", "disputes_pk", "escrow_events_pk"}

Next ==
    \/ \E u \in Users : Listing_objects_create(u)
    \/ \E pk \in 1..MaxEscrows, h \in TxHashes, a \in RawAmounts \cup {NULL, ""} :
          Escrow_mark_funded(pk, h, a)
    \/ \E pk \in 1..MaxEscrows, h \in TxHashes : Escrow_mark_released(pk, h)
    \/ \E pk \in 1..MaxEscrows, h \in TxHashes : Escrow_mark_refunded(pk, h)
    \/ \E e \in 1..MaxEscrows, t \in RecordedEventTypes, h \in TxHashes :
          EscrowEvent_objects_create(e, t, h)
    \/ \E e \in 1..MaxEscrows, u \in Users : Dispute_objects_create(e, u)
    \/ \E u \in Requesters : ListingListCreateView_get(u)
    \/ \E u \in Requesters, b \in ListingBodies : ListingListCreateView_post(u, b)
    \/ \E u \in Requesters, pk \in 1..MaxListings : ListingDetailView_get(u, pk)
    \/ \E u \in Requesters, m \in {"PUT", "PATCH"}, pk \in 1..MaxListings, b \in ListingBodies :
          ListingDetailView_update(u, m, pk, b)
    \/ \E u \in Requesters, pk \in 1..MaxListings : ListingDetailView_delete(u, pk)
    \/ \E u \in Requesters : OrderListCreateView_get(u)
    \/ \E u \in Requesters, b \in OrderBodies : OrderListCreateView_post(u, b)
    \/ \E u \in Requesters, pk \in 1..MaxOrders : OrderDetailView_get(u, pk)
    \/ \E u \in Requesters, m \in {"PUT", "PATCH"}, pk \in 1..MaxOrders, b \in OrderBodies :
          OrderDetailView_update(u, m, pk, b)
    \/ \E u \in Requesters, pk \in 1..MaxOrders : OrderDetailView_delete(u, pk)
    \/ \E u \in Requesters : EscrowListCreateView_get(u)
    \/ \E u \in Requesters, b \in EscrowBodies : EscrowListCreateView_post(u, b)
    \/ \E u \in Requesters, pk \in 1..MaxEscrows,
          path \in {"GET escrows/<pk>/", "GET escrow-events/<pk>/"} :
          EscrowDetailView_get(u, path, pk)
    \/ \E u \in Requesters, o \in BOOLEAN : EscrowEventListView_get(u, o)
    \/ \E u \in Requesters, path \in {"dispute", "disputes_pk"} : DisputeCreateView_post(u, path)
    \/ \E u \in Requesters, path \in DOMAIN urlpatterns, m \in HttpMethods :
          MethodNotAllowed(u, path, m, IF path \in PkPaths THEN 1 ELSE NoRow)

Spec == Init /\ [][Next]_vars

\* The whole relation has too many states to enumerate, and the tables are
\* independent enough to be explored in parts.  Each part has the operations that
\* write the columns it is about and the requests that read them, with the inputs
\* that do not matter to the part held to one value; every action left out of a part
\* leaves the columns the part is about UNCHANGED.

\* the status ledger of an escrow: creation, the helper methods, the escrow endpoints
NextLedger ==
    \/ Listing_objects_create("u1")
    \/ \E b \in EscrowBodies : EscrowListCreateView_post("u2", b)
    \/ \E pk \in 1..MaxEscrows, h \in TxHashes, a \in RawAmounts \cup {NULL, ""} :
          Escrow_mark_funded(pk, h, a)
    \/ \E pk \in 1..MaxEscrows, h \in TxHashes : Escrow_mark_released(pk, h)
    \/ \E pk \in 1..MaxEscrows, h \in TxHashes : Escrow_mark_refunded(pk, h)
    \/ EscrowListCreateView_get("u2")
    \/ \E pk \in 1..MaxEscrows : EscrowDetailView_get("u2", "GET escrows/<pk>/", pk)
    \/ \E path \in {"escrows", "escrows_pk"}, m \in HttpMethods :
          MethodNotAllowed("u2", path, m, IF path \in PkPaths THEN 1 ELSE NoRow)

SpecLedger == Init /\ [][NextLedger]_vars

\* the listings and their images: every request to the four listing endpoints
NextListings ==
    \/ \E u \in Users : Listing_objects_create(u)
    \/ \E l \in 1..MaxListings, o \in {0, 1} : ListingImage_objects_create(l, o)
    \/ \E u \in Requesters : ListingListCreateView_get(u)
    \/ \E u \in Requesters, b \in ListingBodies : ListingListCreateView_post(u, b)
    \/ \E u \in Requesters, pk \in 1..MaxListings : ListingDetailView_get(u, pk)
    \/ \E u \in Requesters, m \in {"PUT", "PATCH"}, pk \in 1..MaxListings, b \in ListingBodies :
          ListingDetailView_update(u, m, pk, b)
    \/ \E u \in Requesters, pk \in 1..MaxListings : ListingDetailView_delete(u, pk)
    \/ \E u \in Requesters : ListingImageListCreateView_get(u)
    \/ \E u \in Requesters, b \in ListingImageBodies : ListingImageListCreateView_post(u, b)
    \/ \E u \in Requesters, pk \in 1..MaxImages : ListingImageDetailView_get(u, pk)
    \/ \E u \in Requesters, m \in {"PUT", "PATCH"}, pk \in 1..MaxImages,
          b \in ListingImageBodies : ListingImageDetailView_update(u, m, pk, b)
    \/ \E u \in Requesters, pk \in 1..MaxImages : ListingImageDetailView_delete(u, pk)
    \/ \E u \in Requesters,
          path \in {"listings", "listings_pk", "listing_images", "listing_images_pk"},
          m \in HttpMethods :
          MethodNotAllowed(u, path, m, IF path \in PkPaths THEN 1 ELSE NoRow)

SpecListings == Init /\ [][NextListings]_vars

\* who an escrow belongs to and who sees it: creation by anybody for anybody's
\* listing, the escrow endpoints, and the deletion of listings
NextAccess ==
    \/ \E u \in Users : Listing_objects_create(u)
    \/ \E u \in Requesters, pk \in 1..MaxListings : ListingDetailView_delete(u, pk)
    \/ \E u \in Requesters, b \in EscrowBodies_plain \cup EscrowBodies_forged :
          EscrowListCreateView_post(u, b)
    \/ \E u \in Requesters : EscrowListCreateView_get(u)
    \/ \E u \in Requesters, pk \in 1..MaxEscrows,
          path \in {"GET escrows/<pk>/", "GET escrow-events/<pk>/"} :
          EscrowDetailView_get(u, path, pk)
    \/ \E u \in {ANON, "u1"}, path \in {"escrows", "escrows_pk", "escrow_events_pk"},
          m \in HttpMethods :
          MethodNotAllowed(u, path, m, IF path \in PkPaths THEN 1 ELSE NoRow)

SpecAccess == Init /\ [][NextAccess]_vars

\* the orders: the order endpoints and the listings they refer to
NextOrders ==
    \/ \E u \in Users : Listing_objects_create(u)
    \/ \E u \in Requesters, pk \in 1..MaxListings : ListingDetailView_delete(u, pk)
    \/ \E u \in Requesters : OrderListCreateView_get(u)
    \/ \E u \in Requesters, b \in OrderBodies : OrderListCreateView_post(u, b)
    \/ \E u \in Requesters, pk \in 1..MaxOrders : OrderDetailView_get(u, pk)
    \/ \E u \in Requesters, m \in {"PUT", "PATCH"}, pk \in 1..MaxOrders, b \in OrderBodies :
          OrderDetailView_update(u, m, pk, b)
    \/ \E u \in Requesters, pk \in 1..MaxOrders : OrderDetailView_delete(u, pk)

SpecOrders == Init /\ [][NextOrders]_vars

\* the life of an order: one seller's listings, and the orders placed, read, updated
\* and deleted by anybody
NextPurchase ==
    \/ Listing_objects_create("u1")
    \/ \E u \in Requesters, b \in OrderBodies : OrderListCreateView_post(u, b)
    \/ \E u \in Requesters, pk \in 1..MaxOrders : OrderDetailView_get(u, pk)
    \/ \E u \in {"u2", "u3"}, m \in {"PUT", "PATCH"}, pk \in 1..MaxOrders, b \in OrderBodies :
          OrderDetailView_update(u, m, pk, b)
    \/ \E u \in {"u2", "u3"}, pk \in 1..MaxOrders : OrderDetailView_delete(u, pk)

SpecPurchase == Init /\ [][NextPurchase]_vars

\* the hashes and amounts the helper methods are called with
MarkHashes == {"0xa", "0xb"}
MarkAmounts == RawAmounts \cup {"9"}

\* the helper methods, called one after the other on the first escrow
NextMarks ==
    \/ Listing_objects_create("u1")
    \/ \E b \in EscrowBodies_plain \cup EscrowBodies_raw : EscrowListCreateView_post("u2", b)
    \/ \E h \in MarkHashes, a \in MarkAmounts \cup {NULL, ""} : Escrow_mark_funded(1, h, a)
    \/ \E h \in MarkHashes : Escrow_mark_released(1, h)
    \/ \E h \in MarkHashes : Escrow_mark_refunded(1, h)

SpecMarks == Init /\ [][NextMarks]_vars

\* calls of the helper methods that overlap: every caller loads the first escrow once
\* and calls one helper method on its copy
NextRace ==
    \/ Listing_objects_create("u1")
    \/ \E b \in EscrowBodies_plain \cup EscrowBodies_raw : EscrowListCreateView_post("u2", b)
    \/ \E c \in 1..MaxCallers : Escrow_objects_get(c, 1)
    \/ \E c \in 1..MaxCallers, h \in MarkHashes, a \in MarkAmounts \cup {NULL, ""} :
          Escrow_instance_mark_funded(c, h, a)
    \/ \E c \in 1..MaxCallers, h \in MarkHashes : Escrow_instance_mark_released(c, h)
    \/ \E c \in 1..MaxCallers, h \in MarkHashes : Escrow_instance_mark_refunded(c, h)

SpecRace == Init /\ [][NextRace]_vars

\* what the REST requests can do to an escrow that the helper methods have moved on:
\* the escrow endpoints with every method, and the deletion of the escrow's listing
NextFrozen ==
    \/ Listing_objects_create("u1")
    \/ \E b \in EscrowBodies : EscrowListCreateView_post("u2", b)
    \/ \E h \in TxHashes, a \in RawAmounts \cup {NULL} : Escrow_mark_funded(1, h, a)
    \/ \E h \in TxHashes : Escrow_mark_released(1, h)
    \/ \E h \in TxHashes : Escrow_mark_refunded(1, h)
    \/ \E u \in {ANON, "u1", "u3"}, pk \in 1..MaxListings : ListingDetailView_delete(u, pk)
    \/ EscrowListCreateView_get("u2")
    \/ \E u \in {"u1", "u3"}, pk \in 1..MaxEscrows :
          EscrowDetailView_get(u, "GET escrows/<pk>/", pk)
    \/ \E u \in {ANON, "u2"}, path \in {"escrows", "escrows_pk"}, m \in HttpMethods :
          MethodNotAllowed(u, path, m, IF path \in PkPaths THEN 1 ELSE NoRow)

SpecFrozen == Init /\ [][NextFrozen]_vars

\* the records attached to an escrow: events and disputes
NextRecords ==
    \/ Listing_objects_create("u1")
    \/ \E pk \in 1..MaxListings : ListingDetailView_delete("u3", pk)
    \/ \E b \in EscrowBodies_plain : EscrowListCreateView_post("u2", b)
    \/ \E e \in 1..MaxEscrows, t \in RecordedEventTypes, h \in TxHashes :
          EscrowEvent_objects_create(e, t, h)
    \/ \E e \in 1..MaxEscrows, u \in {"u2", "u3"} : Dispute_objects_create(e, u)
    \/ \E u \in {ANON, "u2"}, o \in BOOLEAN : EscrowEventListView_get(u, o)
    \/ \E pk \in 1..MaxEscrows : EscrowDetailView_get("u2", "GET escrow-events/<pk>/", pk)
    \/ \E u \in {ANON, "u2"}, path \in {"dispute", "disputes_pk"} :
          DisputeCreateView_post(u, path)
    \/ \E path \in {"dispute", "disputes_pk", "escrow_events", "escrow_events_pk"},
          m \in HttpMethods :
          MethodNotAllowed("u2", path, m, IF path \in PkPaths THEN 1 ELSE NoRow)

SpecRecords == Init /\ [][NextRecords]_vars

\* ================================================================ accounts
\* Text is a sequence of one-character strings, so that the conversions the
\* framework applies to it (strip, lower-casing, length checks) are computed.
MaxUsers == 3
MaxInFlight == 2

WHITESPACE == {" "}

RECURSIVE lstrip(_)
lstrip(s) == IF s # <<>> /\ Head(s) \in WHITESPACE THEN lstrip(Tail(s)) ELSE s

RECURSIVE rstrip(_)
rstrip(s) ==
    IF s # <<>> /\ s[Len(s)] \in WHITESPACE THEN rstrip(SubSeq(s, 1, Len(s) - 1)) ELSE s

\* str.strip(), which CharField.to_internal_value applies (trim_whitespace=True)
strip(s) == lstrip(rstrip(s))

ascii_uppercase ==
    [A |-> "a", B |-> "b", C |-> "c", D |-> "d", E |-> "e", F |-> "f", G |-> "g",
     H |-> "h", I |-> "i", J |-> "j", K |-> "k", L |-> "l", M |-> "m", N |-> "n",
     O |-> "o", P |-> "p", Q |-> "q", R |-> "r", S |-> "s", T |-> "t", U |-> "u",
     V |-> "v", W |-> "w", X |-> "x", Y |-> "y", Z |-> "z"]

\* str.lower()
lower(s) ==
    [i \in 1..Len(s) |-> IF s[i] \in DOMAIN ascii_uppercase THEN ascii_uppercase[s[i]] ELSE s[i]]

\* the position of the last "@" of s, or 0
rindex_at(s) ==
    IF \E i \in 1..Len(s) : s[i] = "@"
    THEN CHOOSE i \in 1..Len(s) : s[i] = "@" /\ \A j \in (i + 1)..Len(s) : s[j] # "@"
    ELSE 0

\* BaseUserManager.normalize_email: the domain part is lower-cased
normalize_email(email) ==
    LET e == strip(email)
        at == rindex_at(e)
    IN  IF at = 0 THEN e
        ELSE SubSeq(e, 1, at) \o lower(SubSeq(e, at + 1, Len(e)))

\* EmailField: one "@", with a name before it and a dotted domain after it
EmailValidator(e) ==
    LET at == rindex_at(e)
    IN  /\ at > 1
        /\ \A i \in 1..(at - 1) : e[i] \notin {"@"} \cup WHITESPACE
        /\ \E i \in (at + 2)..(Len(e) - 1) : e[i] = "."
        /\ \A i \in (at + 1)..Len(e) : e[i] \notin WHITESPACE

\* the texts that requests carry
ann == <<"a", "n", "n">>
bob == <<"b", "o", "b">>
Usernames == {ann, bob}
a_x_io == <<"a", "@", "x", ".", "i", "o">>
a_X_io == <<"a", "@", "X", ".", "i", "o">>
b_x_io == <<"b", "@", "x", ".", "i", "o">>
not_an_email == <<"a", "x">>
Emails == {a_x_io, a_X_io, b_x_io, not_an_email}
secret == <<"s", "e", "c", "r", "e", "t">>
secret_padded == <<"s", "e", "c", "r", "e", "t", " ">>
hunter == <<"h", "u", "n", "t", "e", "r">>
abc == <<"a", "b", "c">>
Passwords == {secret, secret_padded, hunter, abc}
FirstNames == {<<>>, <<"A", "n", "n">>, <<" ", "A", "n", "n">>}

\* ------------------------------------------------------------- registration
\* RegisterSerializer: password and password2 are declared with min_length=6
RegisterSerializer_min_length == 6

\* User.email is unique=True, and AbstractUser.username is unique
User_email_not_unique == FALSE
User_email_unique == TRUE
User_username_unique == TRUE

\* the registration of the documentation's example, and the bodies that differ from
\* it in the username, the email, a name or the passwords
RegisterBody ==
    [username |-> ann, email |-> a_x_io, first_name |-> <<>>, last_name |-> <<>>,
     password |-> secret, password2 |-> secret]

RegisterBodies ==
    {[RegisterBody EXCEPT !.username = n, !.email = e] : n \in Usernames, e \in Emails}
      \cup {[RegisterBody EXCEPT !.first_name = f] : f \in FirstNames}
      \cup {[RegisterBody EXCEPT !.password = q, !.password2 = q] : q \in Passwords}
      \cup {[RegisterBody EXCEPT !.password2 = q] : q \in Passwords}

\* to_internal_value of the fields of RegisterSerializer: all are CharFields
RegisterSerializer_to_internal_value(body) == [f \in DOMAIN body |-> strip(body[f])]

\* RegisterSerializer.is_valid: the field validators, the UniqueValidators that the
\* unique columns of User bring, and then validate()
RegisterSerializer_is_valid(body) ==
    LET attrs == RegisterSerializer_to_internal_value(body)
    IN  /\ attrs.username # <<>>
        /\ User_username_unique =>
              \A u \in DOMAIN users : users[u].username # attrs.username
        /\ EmailValidator(attrs.email)
        /\ User_email_unique => \A u \in DOMAIN users : users[u].email # attrs.email
        /\ Len(attrs.password) >= RegisterSerializer_min_length
        /\ Len(attrs.password2) >= RegisterSerializer_min_length
        /\ attrs.password = attrs.password2

RegisterSerializer_create_as_sent(validated_data) ==
    [username |-> validated_data.username,
     email |-> validated_data.email,
     first_name |-> validated_data.first_name,
     last_name |-> validated_data.last_name,
     password |-> validated_data.password,
     stamp |-> 0]

\* RegisterSerializer.create up to the INSERT: password2 is dropped, and create_user
\* normalizes the email; stamp stands for the salted hash of the password, which is
\* new at every set_password
RegisterSerializer_create(validated_data) ==
    [username |-> validated_data.username,
     email |-> normalize_email(validated_data.email),
     first_name |-> validated_data.first_name,
     last_name |-> validated_data.last_name,
     password |-> validated_data.password,
     stamp |-> 0]

\* the unique constraints of the user table, checked by the database at the INSERT
User_IntegrityError(row) ==
    \/ User_username_unique /\ \E u \in DOMAIN users : users[u].username = row.username
    \/ User_email_unique /\ \E u \in DOMAIN users : users[u].email = row.email

\* the response data of RegisterView
user_data(pk, row) ==
    [id |-> pk, username |-> row.username, email |-> row.email,
     first_name |-> row.first_name, last_name |-> row.last_name]

\* POST register/, first half: RegisterSerializer(data=request.data).is_valid().  A
\* request that is valid goes on to save(); other requests may run in between.
RegisterView_post_is_valid(body) ==
    /\ Cardinality(DOMAIN users) + Len(registering) < MaxUsers
    /\ Len(registering) < MaxInFlight
    /\ IF RegisterSerializer_is_valid(body)
       THEN /\ registering' = Append(registering, body)
            /\ last' = Merge(Op("RegisterSerializer.is_valid", ANON, NoRow, 0, {}),
                             [request |-> body])
       ELSE /\ last' = Merge(Op("POST register/", ANON, NoRow, 400, {}), [request |-> body])
            /\ UNCHANGED registering
    /\ UNCHANGED <<marketVars, profiles, users, outstanding, blacklisted, mailbox>>

\* POST register/, second half: serializer.save() and the response; an IntegrityError
\* is not caught
RegisterView_post_save(i) ==
    /\ i \in 1..Len(registering)
    /\ LET body == registering[i]
           row == RegisterSerializer_create(RegisterSerializer_to_internal_value(body))
           pk == Cardinality(DOMAIN users) + 1
       IN  /\ registering' = SubSeq(registering, 1, i - 1)
                                \o SubSeq(registering, i + 1, Len(registering))
           /\ IF User_IntegrityError(row)
              THEN /\ last' = Merge(Op("POST register/", ANON, NoRow, 500, {}),
                                    [request |-> body])
                   /\ UNCHANGED users
              ELSE /\ users' = Merge(users, [k \in {pk} |-> row])
                   /\ last' = Merge(Op("POST register/", ANON, pk, 201, {pk}),
                                    [request |-> body, data |-> user_data(pk, row)])
    /\ UNCHANGED <<marketVars, profiles, outstanding, blacklisted, mailbox>>

\* ------------------------------------------------------------ login, logout
MaxTokens == 2

\* the body of a login: the fields sent; a field may be missing
LoginBodies ==
    {[username |-> n, password |-> p] : n \in Usernames, p \in Passwords \cup {<<>>}}
      \cup {[username |-> n] : n \in Usernames}

\* LoginSerializer's fields: username and password are required CharFields, which
\* strip the value and do not allow it to be blank
LoginSerializer_fields_valid(body) ==
    /\ {"username", "password"} \subseteq DOMAIN body
    /\ strip(body.username) # <<>>
    /\ strip(body.password) # <<>>

authenticate_any_password(username, password) ==
    {u \in DOMAIN users : users[u].username = username}

\* django.contrib.auth.authenticate: the users (one or none) with this username and
\* password
authenticate(username, password) ==
    {u \in DOMAIN users : users[u].username = username /\ users[u].password = password}

\* a JWT: its token_type claim and its jti
RefreshToken(jti) == [token_type |-> "refresh", jti |-> jti]
AccessToken(jti) == [token_type |-> "access", jti |-> jti]

\* the jti of the next token made; RefreshToken.for_user and blacklist() record every
\* token in OutstandingToken
NextJti == Cardinality(DOMAIN outstanding) + 1

\* LoginSerializer.validate, for attrs that authenticate user pk: the data returned
LoginSerializer_validate(pk) ==
    [access |-> AccessToken(NextJti), refresh |-> RefreshToken(NextJti),
     user |-> user_data(pk, users[pk])]

\* POST login/: AuthenticationFailed is raised inside is_valid() and is answered 401
\* by the exception handler; only field errors reach the 400 of the view
LoginView_post(body) ==
    /\ Cardinality(DOMAIN outstanding) < MaxTokens
    /\ LET answer(pk, code) ==
             Merge(Op("POST login/", ANON, pk, code, {}), [request |-> body])
       IN  IF ~LoginSerializer_fields_valid(body)
           THEN last' = answer(NoRow, 400) /\ UNCHANGED outstanding
           ELSE LET found == authenticate(strip(body.username), strip(body.password))
                IN  IF found = {}
                    THEN last' = answer(NoRow, 401) /\ UNCHANGED outstanding
                    ELSE \E pk \in found :
                           /\ outstanding' =
                                Merge(outstanding, [k \in {NextJti} |-> [user |-> pk]])
                           /\ last' = Merge(answer(pk, 200),
                                            [data |-> LoginSerializer_validate(pk)])
    /\ UNCHANGED <<marketVars, profiles, users, registering, blacklisted, mailbox>>

\* what a logout request carries as "refresh": nothing (request.data.get gives None),
\* something that is no JWT, an access token, or a refresh token that was issued
NO_TOKEN == [token_type |-> "None", jti |-> NoRow]
MALFORMED == [token_type |-> "not.a.jwt", jti |-> NoRow]

LogoutTokens ==
    {NO_TOKEN, MALFORMED} \cup {AccessToken(j) : j \in 1..MaxTokens}
      \cup {RefreshToken(j) : j \in 1..MaxTokens}

\* request.user of a request to accounts/: the pk of the user whose access token the
\* request carries, or NoRow without one
AccountRequesters == 1..MaxUsers \cup {NoRow}

\* RefreshToken(token): TokenError unless the token decodes, is of type refresh and is
\* not blacklisted (expiry is left out); with token=None a new token is made instead
RefreshToken_TokenError(token) ==
    /\ token # NO_TOKEN
    /\ \/ token.token_type # "refresh"
       \/ token.jti \notin DOMAIN outstanding
       \/ token.jti \in blacklisted

\* POST logout/ by the user whose access token the request carries; without one,
\* IsAuthenticated refuses the request
LogoutView_post(user, refresh) ==
    /\ user = NoRow \/ \E j \in DOMAIN outstanding : outstanding[j].user = user
    /\ refresh = NO_TOKEN => Cardinality(DOMAIN outstanding) < MaxTokens + 1
    /\ LET answer(code) ==
             Merge(Op("POST logout/", user, NoRow, code, {}), [request |-> refresh])
       IN  IF user = NoRow
           THEN last' = answer(401) /\ UNCHANGED <<outstanding, blacklisted>>
           ELSE IF RefreshToken_TokenError(refresh)
           THEN last' = answer(400) /\ UNCHANGED <<outstanding, blacklisted>>
           ELSE IF refresh = NO_TOKEN
           THEN /\ outstanding' = Merge(outstanding, [k \in {NextJti} |-> [user |-> NoRow]])
                /\ blacklisted' = blacklisted \cup {NextJti}
                /\ last' = answer(200)
           ELSE /\ blacklisted' = blacklisted \cup {refresh.jti}
                /\ last' = answer(200)
                /\ UNCHANGED outstanding
    /\ UNCHANGED <<marketVars, profiles, users, registering, mailbox>>

\* the two accounts of the sessions: ann and bob
SessionRegisterBodies ==
    {RegisterBody,
     [RegisterBody EXCEPT !.username = bob, !.email = b_x_io, !.password = hunter,
                          !.password2 = hunter]}

\* registration, login and logout
NextSession ==
    \/ \E b \in SessionRegisterBodies : RegisterView_post_is_valid(b)
    \/ \E i \in 1..MaxInFlight : RegisterView_post_save(i)
    \/ \E b \in LoginBodies : LoginView_post(b)
    \/ \E u \in AccountRequesters, t \in LogoutTokens : LogoutView_post(u, t)

SpecSession == Init /\ [][NextSession]_vars

\* ------------------------------------------------------------- user/profile/
\* the bodies of PUT user/profile/ (partial=True: every field is optional)
ProfileBodies == {<<>>, [bio |-> "trader"], [is_seller |-> TRUE]}

\* request.user.profile: the rows of Profile whose user is the requester; the
\* accessor raises RelatedObjectDoesNotExist when there is none
User_profile(user) == {p \in DOMAIN profiles : profiles[p].user = user}

\* GET user/profile/
ProfileView_get(user) ==
    /\ user = NoRow \/ \E j \in DOMAIN outstanding : outstanding[j].user = user
    /\ last' = Op("GET user/profile/", user, NoRow,
                  IF user = NoRow THEN 401
                  ELSE IF User_profile(user) = {} THEN 500 ELSE 200,
                  User_profile(user))
    /\ UNCHANGED <<marketVars, imageVars, loaded, accountVars>>

\* PUT user/profile/
ProfileView_put(user, body) ==
    /\ user = NoRow \/ \E j \in DOMAIN outstanding : outstanding[j].user = user
    /\ LET answer(code) ==
             Merge(Op("PUT user/profile/", user, NoRow, code, {}), [request |-> body])
       IN  IF user = NoRow
           THEN last' = answer(401) /\ UNCHANGED profiles
           ELSE IF User_profile(user) = {}
           THEN last' = answer(500) /\ UNCHANGED profiles
           ELSE \E p \in User_profile(user) :
                   /\ profiles' = [profiles EXCEPT ![p] = Merge(@, body)]
                   /\ last' = [answer(200) EXCEPT !.body = {p}]
    /\ UNCHANGED <<marketVars, users, registering, outstanding, blacklisted, mailbox>>

\* registration, login and the profile endpoint
NextProfile ==
    \/ \E b \in SessionRegisterBodies : RegisterView_post_is_valid(b)
    \/ \E i \in 1..MaxInFlight : RegisterView_post_save(i)
    \/ \E b \in LoginBodies : LoginView_post(b)
    \/ \E u \in AccountRequesters : ProfileView_get(u)
    \/ \E u \in AccountRequesters, b \in ProfileBodies : ProfileView_put(u, b)

SpecProfile == Init /\ [][NextProfile]_vars

\* ----------------------------------------------------------- password reset
MaxResets == 1

\* urlsafe_base64_encode(force_bytes(user.pk)), for the pks 1 to 9
urlsafe_base64_encode ==
    <<"MQ", "Mg", "Mw", "NA", "NQ", "Ng", "Nw", "OA", "OQ">>

\* the uidb64 values of requests: that of users 1 and 2, that of pk 9, which no user
\* has, "YQ", which decodes to the letter a, and "M", which does not decode
Uidb64s == {"MQ", "Mg", "OQ", "YQ", "M"}

\* force_str(urlsafe_base64_decode(uidb64)) followed by User.objects.get(pk=uid): the
\* users found.  Text that does not decode or is no number raises ValueError, a
\* number that is no user's pk raises User.DoesNotExist: both leave no user.
User_objects_get_uidb64(uidb64) ==
    {u \in DOMAIN users : u \in DOMAIN urlsafe_base64_encode
                            /\ urlsafe_base64_encode[u] = uidb64}

\* PasswordResetTokenGenerator.make_token(user): a keyed hash of the user's pk,
\* password hash and email (and of last_login and the time, which do not change here)
make_token(pk) == [uid |-> pk, stamp |-> users[pk].stamp, email |-> users[pk].email]

\* a token that no make_token produced
FORGED_TOKEN == [uid |-> NoRow, stamp |-> 0, email |-> <<>>]

\* default_token_generator.check_token(user, token), within the token's lifetime
check_token(pk, token) == token = make_token(pk)

\* the response of PasswordResetRequestView.post, given the user table, the email
\* sent and whether send_mail succeeds: an exception of send_mail
\* (fail_silently=False) is not caught
PasswordResetRequestView_response(table, email, mail_ok) ==
    IF ~EmailValidator(strip(email))
    THEN [code |-> 400, body |-> "Enter a valid email address."]
    ELSE IF (\E u \in DOMAIN table : table[u].email = strip(email)) /\ ~mail_ok
    THEN [code |-> 500, body |-> "Server Error (500)"]
    ELSE [code |-> 200,
          body |-> "If an account with this email exists, a password reset link has been sent."]

\* POST password-reset/
PasswordResetRequestView_post(email, mail_ok) ==
    /\ LET response == PasswordResetRequestView_response(users, email, mail_ok)
       IN  /\ last' = Merge(Op("POST password-reset/", ANON, NoRow, response.code, {}),
                            [request |-> email, data |-> response.body])
           /\ mailbox' =
                IF response.code = 200
                THEN mailbox \cup {[to |-> users[u].email,
                                    uidb64 |-> urlsafe_base64_encode[u],
                                    token |-> make_token(u)]
                                      : u \in {v \in DOMAIN users : users[v].email = strip(email)}}
                ELSE mailbox
    /\ UNCHANGED <<marketVars, profiles, users, registering, outstanding, blacklisted>>

\* the bodies of a confirmation: uidb64 may be missing; the token is one that was
\* mailed, or a forged one
PasswordResetConfirmBodies ==
    LET tokens == {m.token : m \in mailbox} \cup {FORGED_TOKEN}
        passwords == {<<hunter, hunter>>, <<hunter, secret>>, <<secret, secret_padded>>,
                      <<abc, abc>>}
    IN  {[uidb64 |-> i, token |-> t, password |-> p[1], password2 |-> p[2]]
            : i \in Uidb64s, t \in tokens, p \in passwords}
          \cup {[token |-> t, password |-> p[1], password2 |-> p[2]]
                  : t \in tokens, p \in passwords}

\* PasswordResetConfirmSerializer.is_valid: token, password, password2
PasswordResetConfirmSerializer_is_valid(body) ==
    /\ {"token", "password", "password2"} \subseteq DOMAIN body
    /\ Len(strip(body.password)) >= RegisterSerializer_min_length
    /\ Len(strip(body.password2)) >= RegisterSerializer_min_length
    /\ strip(body.password) = strip(body.password2)

\* user.set_password(password); user.save()
set_password(user, password) ==
    [user EXCEPT !.password = password, !.stamp = @ + 1]

\* POST password-reset/confirm/: request.data.get("uidb64") is None when the field is
\* missing, and urlsafe_base64_decode(None) raises AttributeError, which the except
\* clause does not name
PasswordResetConfirmView_post(body) ==
    /\ LET answer(code) ==
             Merge(Op("POST password-reset/confirm/", ANON, NoRow, code, {}),
                   [request |-> body])
       IN  IF ~PasswordResetConfirmSerializer_is_valid(body)
           THEN last' = answer(400) /\ UNCHANGED users
           ELSE IF "uidb64" \notin DOMAIN body
           THEN last' = answer(500) /\ UNCHANGED users
           ELSE IF User_objects_get_uidb64(body.uidb64) = {}
           THEN last' = answer(400) /\ UNCHANGED users
           ELSE \E u \in User_objects_get_uidb64(body.uidb64) :
                   IF ~check_token(u, body.token)
                   THEN last' = answer(400) /\ UNCHANGED users
                   ELSE /\ users[u].stamp < MaxResets
                        /\ users' = [users EXCEPT ![u] = set_password(@, strip(body.password))]
                        /\ last' = [answer(200) EXCEPT !.pk = u]
    /\ UNCHANGED <<marketVars, profiles, registering, outstanding, blacklisted, mailbox>>

\* registration of the two accounts, and the two password-reset requests
NextReset ==
    \/ \E b \in SessionRegisterBodies : RegisterView_post_is_valid(b)
    \/ \E i \in 1..MaxInFlight : RegisterView_post_save(i)
    \/ \E e \in Emails, ok \in BOOLEAN : PasswordResetRequestView_post(e, ok)
    \/ \E b \in PasswordResetConfirmBodies : PasswordResetConfirmView_post(b)

SpecReset == Init /\ [][NextReset]_vars

\* registration, with requests that overlap
NextRegister ==
    \/ \E b \in RegisterBodies : RegisterView_post_is_valid(b)
    \/ \E i \in 1..MaxInFlight : RegisterView_post_save(i)

SpecRegister == Init /\ [][NextRegister]_vars

\* the disputes and the two dispute views
NextDisputes ==
    \/ Listing_objects_create("u1")
    \/ \E b \in EscrowBodies_plain : EscrowListCreateView_post("u2", b)
    \/ \E e \in 1..MaxEscrows : Dispute_objects_create(e, "u2")
    \/ \E u \in Requesters, path \in {"dispute", "disputes_pk"} :
          DisputeCreateView_post(u, path)
    \/ \E u \in Requesters, m \in {"PUT", "PATCH"}, pk \in 1..MaxDisputes,
          b \in DisputeUpdateBodies : dispute_detail_update(u, m, pk, b)
    \/ \E u \in Requesters, m \in {"PUT", "PATCH"}, pk \in 1..MaxDisputes,
          b \in DisputeUpdateBodies : DisputeUpdateView_update(u, m, pk, b)

SpecDisputes == Init /\ [][NextDisputes]_vars

\* ------------------------------------------------------------------ claims
MarkOps == {"mark_funded", "mark_released", "mark_refunded"}

HelperTargets == {STATUS_FUNDED, STATUS_COMPLETE, STATUS_REFUNDED}

\* one call of a helper method on escrow pk
MarkStep(pk) ==
    \/ \E h \in TxHashes, a \in RawAmounts \cup {NULL, ""} : Escrow_mark_funded(pk, h, a)
    \/ \E h \in TxHashes : Escrow_mark_released(pk, h)
    \/ \E h \in TxHashes : Escrow_mark_refunded(pk, h)

Participants(row) == {row.buyer, row.seller}

\* C1: in every reachable state every escrow's status is one of the six values of
\* Escrow.STATUS_CHOICES, whatever creations and mark_* calls came before.
C1_StatusInChoices == \A e \in DOMAIN escrows : escrows[e].status \in STATUS_CHOICES

\* an escrow that went through mark_funded, mark_released and mark_refunded
C1_Witness ==
    \E e \in DOMAIN escrows :
        /\ escrows[e].tx_fund # NULL
        /\ escrows[e].tx_release # NULL
        /\ escrows[e].tx_refund # NULL

\* C2: the helper methods enforce no transition order: each of them can be called on
\* an escrow in any status, and after the call the escrow has the method's status
\* and carries the hash it was given, whatever its status was before.
C2_MarksUnconditional ==
    /\ \A e \in DOMAIN escrows :
          /\ \A h \in TxHashes : ENABLED Escrow_mark_funded(e, h, NULL)
          /\ \A h \in TxHashes : ENABLED Escrow_mark_released(e, h)
          /\ \A h \in TxHashes : ENABLED Escrow_mark_refunded(e, h)
    /\ (last.op = "mark_funded" =>
            escrows[last.pk].status = STATUS_FUNDED /\ escrows[last.pk].tx_fund \in TxHashes)
    /\ (last.op = "mark_released" =>
            escrows[last.pk].status = STATUS_COMPLETE
              /\ escrows[last.pk].tx_release \in TxHashes)
    /\ (last.op = "mark_refunded" =>
            escrows[last.pk].status = STATUS_REFUNDED
              /\ escrows[last.pk].tx_refund \in TxHashes)

\* an escrow that was COMPLETE, released without ever having been funded, has just
\* been moved back to FUNDED
C2_Witness ==
    /\ last.op = "mark_funded"
    /\ last.prev.status = STATUS_COMPLETE
    /\ last.prev.tx_release # NULL
    /\ last.prev.tx_fund = NULL
    /\ escrows[last.pk].status = STATUS_FUNDED

\* C3 as stated: from every current status, some operation puts the escrow into each
\* of the six status values.
C3_AnyStatusSettable ==
    \A e \in DOMAIN escrows : \A s \in STATUS_CHOICES :
        ENABLED (Next /\ e \in DOMAIN escrows' /\ escrows'[e].status = s)

\* from every current status, the helper methods put the escrow into each of
\* FUNDED, COMPLETE and REFUNDED
C3_HelperTargetsSettable ==
    \A e \in DOMAIN escrows : \A s \in HelperTargets :
        ENABLED (MarkStep(e) /\ escrows'[e].status = s)

\* C3 as amended: from every current status the helper methods put an escrow into
\* FUNDED, COMPLETE and REFUNDED; nothing else changes the status of an escrow, so
\* no operation puts an escrow that exists into AWAITING_PAYMENT, SHIPPED or DISPUTE,
\* and no REST request changes an escrow's status at all.
C3_OnlyHelperTargetsSettable ==
    /\ []C3_HelperTargetsSettable
    /\ [][\A e \in DOMAIN escrows \cap DOMAIN escrows' :
             escrows'[e].status # escrows[e].status =>
                 /\ escrows'[e].status \in HelperTargets
                 /\ last'.op \in MarkOps
                 /\ last'.code = 0]_vars

\* a REFUNDED escrow has just been put into COMPLETE
C3_Witness ==
    /\ last.op = "mark_released"
    /\ last.prev.status = STATUS_REFUNDED
    /\ escrows[last.pk].status = STATUS_COMPLETE

\* C4: a row that POST escrows/ adds has status AWAITING_PAYMENT and no transaction
\* hash, whatever the body carried.
C4_CreatedAwaiting ==
    [][\A e \in DOMAIN escrows' \ DOMAIN escrows :
          /\ last'.op = "POST escrows/"
          /\ escrows'[e].status = STATUS_AWAITING
          /\ escrows'[e].tx_create = NULL
          /\ escrows'[e].tx_fund = NULL
          /\ escrows'[e].tx_release = NULL
          /\ escrows'[e].tx_refund = NULL]_vars

\* an escrow has just been created from a body that carried a status and hashes
C4_Witness ==
    /\ last.op = "POST escrows/"
    /\ last.pk \in DOMAIN escrows
    /\ {"status", "tx_create", "tx_fund", "tx_release", "tx_refund"} \subseteq last.sent

\* C5: a row that POST escrows/ adds has the requester as buyer and the seller of the
\* listing it names as seller, and no request changes the buyer or the seller of a
\* row that exists.
C5_BuyerAndSellerAssigned ==
    [][/\ \A e \in DOMAIN escrows' \ DOMAIN escrows :
             /\ escrows'[e].buyer = last'.user
             /\ escrows'[e].listing \in DOMAIN listings
             /\ escrows'[e].seller = listings[escrows'[e].listing].seller
       /\ \A e \in DOMAIN escrows :
             last'.code # 0 =>
                 /\ e \in DOMAIN escrows'
                 /\ escrows'[e].buyer = escrows[e].buyer
                 /\ escrows'[e].seller = escrows[e].seller]_vars

\* an escrow has just been created from a body that named another buyer and seller
C5_Witness ==
    /\ last.op = "POST escrows/"
    /\ last.pk \in DOMAIN escrows
    /\ {"buyer", "seller"} \subseteq last.sent
    /\ escrows[last.pk].buyer # escrows[last.pk].seller

\* C6 as stated: for an authenticated user, GET escrows/<pk>/ returns the escrow if
\* and only if the user is its buyer or seller, and is not-found for anybody else;
\* GET escrows/ returns exactly the escrows the user is buyer or seller of.
C6_ParticipantsSeeEscrow ==
    /\ (last.op = "GET escrows/<pk>/" /\ IsAuthenticated(last.user)
          /\ last.pk \in DOMAIN escrows) =>
            /\ (last.body = {last.pk} <=> last.user \in Participants(escrows[last.pk]))
            /\ (last.user \notin Participants(escrows[last.pk]) => last.code = 404)
    /\ (last.op = "GET escrows/" /\ IsAuthenticated(last.user)) =>
            last.body = {e \in DOMAIN escrows : last.user \in Participants(escrows[e])}

OrderDetailOps == {"GET orders/<pk>/", "PUT orders/<pk>/", "DELETE orders/<pk>/"}

\* C7 as stated: a retrieve, update or delete of orders/<pk>/ succeeds (answers 200 or
\* 204, or changes the order) only for the order's buyer or its listing's seller.
C7_OnlyParticipantsTouchOrder ==
    [][\A o \in DOMAIN orders :
          (/\ last'.op \in OrderDetailOps
           /\ last'.pk = o
           /\ (last'.code \in {200, 204} \/ orders' # orders))
          => last'.user \in {orders[o].buyer, listings[orders[o].listing].seller}]_vars

\* C8 as stated: GET orders/ answers an authenticated user with exactly the orders the
\* user is buyer of or listing seller of.
C8_OrderListIsOwn ==
    (last.op = "GET orders/" /\ IsAuthenticated(last.user)) =>
        /\ last.code = 200
        /\ last.body = {o \in DOMAIN orders :
                           \/ orders[o].buyer = last.user
                           \/ listings[orders[o].listing].seller = last.user}

\* C9: an event, once recorded, stays as it is for as long as its escrow exists, and
\* no REST request changes the event table.
C9_EventsAppendOnly ==
    [][/\ \A v \in DOMAIN events :
             events[v].escrow \in DOMAIN escrows' =>
                 v \in DOMAIN events' /\ events'[v] = events[v]
       /\ (last'.code # 0 => events' = events)]_vars

\* an event is still there after the listing of its escrow was deleted
C9_Witness ==
    /\ last.op = "DELETE listings/<pk>/"
    /\ last.code = 204
    /\ \E v \in DOMAIN events : escrows[events[v].escrow].listing = NoRow

C10_AtMostOneDispute ==
    \A d1, d2 \in DOMAIN disputes : disputes[d1].escrow = disputes[d2].escrow => d1 = d2

\* C10: every escrow has at most one dispute, and creating a dispute for an escrow
\* that has one fails and leaves the dispute table as it was.
C10_DisputeOneToOne ==
    /\ []C10_AtMostOneDispute
    /\ [][(/\ last'.op = "Dispute.objects.create"
           /\ \E d \in DOMAIN disputes : disputes[d].escrow = last'.pk)
          => (disputes' = disputes /\ last'.body = {})]_vars

\* a second dispute for an escrow has just been refused
C10_Witness ==
    /\ last.op = "Dispute.objects.create"
    /\ last.body = {}
    /\ \E d \in DOMAIN disputes : disputes[d].escrow = last.pk

\* C11 as stated: an authenticated user can create a dispute for an escrow, one that
\* has none yet, through POST dispute/, and the dispute created has the requester as
\* the user who raised it.
C11_RequesterRaisesDispute ==
    \A u \in Users : \A e \in DOMAIN escrows :
        (\A d \in DOMAIN disputes : disputes[d].escrow # e) =>
            ENABLED (/\ DisputeCreateView_post(u, "dispute")
                     /\ \E d \in DOMAIN disputes' \ DOMAIN disputes :
                           /\ disputes'[d].escrow = e
                           /\ disputes'[d].raised_by = u)

\* C12 as stated: an update request of an admin to disputes/<pk>/ reaches the
\* dispute-update handler and changes the dispute, and an update request of anybody
\* else changes nothing.
C12_AdminUpdatesDispute ==
    \A d \in DOMAIN disputes :
        /\ \A a \in Admins :
              ENABLED (/\ \E m \in {"PUT", "PATCH"}, b \in DisputeUpdateBodies :
                            dispute_detail_update(a, m, d, b)
                       /\ last'.op = "DisputeUpdateView.update"
                       /\ disputes'[d] # disputes[d])
        /\ \A u \in Requesters \ Admins :
              ~ENABLED (/\ \E m \in {"PUT", "PATCH"}, b \in DisputeUpdateBodies :
                             dispute_detail_update(u, m, d, b)
                        /\ disputes' # disputes)

\* C13 as stated: after an update of a dispute that sets status to "resolved" the
\* dispute has a resolved_at, the time of the update; any other update leaves
\* resolved_at as it was, and a resolved_at sent by the client is never stored.
C13_ResolvedAtSetOnResolve ==
    (/\ last.op = "DisputeUpdateView.update"
     /\ IsAdminUser(last.user)
     /\ last.pk \in DOMAIN disputes) =>
        /\ ("status" \in DOMAIN last.request /\ last.request.status = "resolved")
              => disputes[last.pk].resolved_at = NOW
        /\ disputes[last.pk].resolved_at \in {NULL, NOW}

\* the users a step adds
NewUsers == DOMAIN users' \ DOMAIN users

C15_UniqueUsers ==
    \A u1, u2 \in DOMAIN users :
        (users[u1].email = users[u2].email \/ users[u1].username = users[u2].username)
            => u1 = u2

\* C15: no two users share an email or a username, however registration requests
\* overlap, and a registration whose username or email (as it would be stored) is
\* that of a user creates no user.
C15_NoDuplicateUsers ==
    /\ []C15_UniqueUsers
    /\ [][(/\ last'.op = "POST register/"
           /\ \E u \in DOMAIN users :
                 \/ users[u].username = strip(last'.request.username)
                 \/ users[u].email = normalize_email(last'.request.email))
          => users' = users]_vars

\* a registration that passed validation found its very email taken at the INSERT:
\* another registration with that email was completed in between
C15_Witness ==
    /\ last.op = "POST register/"
    /\ last.code = 500
    /\ \E u \in DOMAIN users :
          /\ users[u].email = strip(last.request.email)
          /\ users[u].username # strip(last.request.username)

\* C16 as stated: a login whose username and password are not those of a user is
\* answered 401 and issues no token; a login with the username and password of a user
\* is answered 200 with an access token, a refresh token and the data of that user.
C16_LoginAsSubmitted ==
    [][last'.op = "POST login/" =>
          LET b == last'.request
              matching == {u \in DOMAIN users :
                              /\ "password" \in DOMAIN b
                              /\ users[u].username = b.username
                              /\ users[u].password = b.password}
          IN  /\ matching = {} =>
                    /\ last'.code = 401
                    /\ outstanding' = outstanding
                    /\ "data" \notin DOMAIN last'
              /\ \A u \in matching :
                    /\ last'.code = 200
                    /\ last'.data.user = user_data(u, users[u])
                    /\ last'.data.refresh.token_type = "refresh"
                    /\ last'.data.access.token_type = "access"
                    /\ outstanding'[last'.data.refresh.jti].user = u]_vars

\* C16 as amended: a login without a username or password, or with one that is blank
\* once surrounding whitespace is stripped, is answered 400; a login whose stripped
\* username and password are not those of a user is answered 401; neither issues a
\* token.  A login whose stripped username and password are those of a user is
\* answered 200 with an access token, a refresh token and the data of that user.
C16_LoginAsStripped ==
    [][last'.op = "POST login/" =>
          LET b == last'.request
              matching == {u \in DOMAIN users :
                              /\ LoginSerializer_fields_valid(b)
                              /\ users[u].username = strip(b.username)
                              /\ users[u].password = strip(b.password)}
          IN  /\ ~LoginSerializer_fields_valid(b) => last'.code = 400
              /\ (LoginSerializer_fields_valid(b) /\ matching = {}) => last'.code = 401
              /\ matching = {} =>
                    /\ outstanding' = outstanding
                    /\ "data" \notin DOMAIN last'
              /\ \A u \in matching :
                    /\ last'.code = 200
                    /\ last'.data.user = user_data(u, users[u])
                    /\ last'.data.refresh.token_type = "refresh"
                    /\ last'.data.access.token_type = "access"
                    /\ last'.data.refresh.jti \notin DOMAIN outstanding
                    /\ outstanding'[last'.data.refresh.jti].user = u]_vars

\* a login has just succeeded with a password that is the user's only once stripped
C16_Witness ==
    /\ last.op = "POST login/"
    /\ last.code = 200
    /\ users[last.pk].password # last.request.password
    /\ last.data.user.username = users[last.pk].username

\* C17 as stated: a logout with a refresh token that is valid and not blacklisted
\* blacklists it and is answered 200; a logout with any other token, or none, is
\* answered 400 and blacklists nothing; a blacklisted token stays blacklisted.
C17_LogoutBlacklistsToken ==
    [][/\ blacklisted \subseteq blacklisted'
       /\ (last'.op = "POST logout/" /\ last'.user # NoRow) =>
             LET t == last'.request
                 valid == /\ t.token_type = "refresh"
                          /\ t.jti \in DOMAIN outstanding
                          /\ t.jti \notin blacklisted
             IN  IF valid
                 THEN last'.code = 200 /\ blacklisted' = blacklisted \cup {t.jti}
                 ELSE last'.code = 400 /\ blacklisted' = blacklisted]_vars

\* C18 as stated: a logout by one user never blacklists a refresh token that was
\* issued to another user.
C18_LogoutOwnTokenOnly ==
    [][last'.op = "POST logout/" =>
          \A j \in blacklisted' \ blacklisted :
              outstanding'[j].user \in {last'.user, NoRow}]_vars

\* C19 as stated: the answer to a password-reset request for a well-formed email is
\* the same, status and body, whether or not a user has that email, also when the
\* mail cannot be sent.
C19_ResetDoesNotRevealUser ==
    \A e \in Emails : \A mail_ok \in BOOLEAN :
        EmailValidator(strip(e)) =>
            PasswordResetRequestView_response(users, e, mail_ok)
              = PasswordResetRequestView_response(
                    Without(users, {u \in DOMAIN users : users[u].email = strip(e)}),
                    e, mail_ok)

\* C20 as stated: a confirmation changes a password only if its uidb64 names a user
\* and its token is valid for that user, and then only that user's; a confirmation
\* whose uidb64 is missing, does not decode or names no user, whose token is not valid
\* for the user, or whose password differs from password2, is answered 400 and
\* changes no user.
C20_ResetOnlyWithValidToken ==
    [][last'.op = "POST password-reset/confirm/" =>
          LET b == last'.request
              named == IF "uidb64" \in DOMAIN b THEN User_objects_get_uidb64(b.uidb64)
                       ELSE {}
              valid == {u \in named : check_token(u, b.token)}
          IN  /\ \A u \in DOMAIN users : users'[u] # users[u] => u \in valid
              /\ (valid = {} \/ b.password # b.password2) =>
                    (last'.code = 400 /\ users' = users)]_vars

\* C21 as stated: every user has exactly one profile, and a registered user who asks
\* for user/profile/ (GET or PUT) is answered 200.
C21_OneProfilePerUser ==
    /\ \A u \in DOMAIN users : Cardinality(User_profile(u)) = 1
    /\ (last.op \in {"GET user/profile/", "PUT user/profile/"} /\ last.user \in DOMAIN users)
          => last.code = 200

ListingOps ==
    {"GET listings/", "POST listings/", "GET listings/<pk>/", "PUT listings/<pk>/",
     "DELETE listings/<pk>/", "GET listing-images/", "POST listing-images/",
     "GET listing-images/<pk>/", "PUT listing-images/<pk>/", "DELETE listing-images/<pk>/"}

\* C22 as stated: an authenticated user who sends POST listings/ with the required
\* fields creates a listing whose seller is the requester, whatever seller the body
\* names; a listing that POST listings/ creates has the requester as its seller; no
\* step changes the seller of a listing; and a request without authentication to a
\* listing or listing-image endpoint changes no table.
C22_SellerIsRequester ==
    /\ [](\A u \in Users :
            listingSeq < MaxListings =>
                \A b \in {x \in ListingBodies : x.required} :
                    ENABLED (/\ ListingListCreateView_post(u, b)
                             /\ \E l \in DOMAIN listings' \ DOMAIN listings :
                                   listings'[l].seller = u))
    /\ [][/\ last'.op = "POST listings/" =>
                \A l \in DOMAIN listings' \ DOMAIN listings :
                    listings'[l].seller = last'.user
          /\ \A l \in DOMAIN listings \cap DOMAIN listings' :
                listings'[l].seller = listings[l].seller
          /\ (last'.op \in ListingOps /\ last'.user = ANON) => marketVars' = marketVars]_vars

\* C23 as stated: an update or a delete of listings/<pk>/ changes the listing table
\* only when the requester is the seller of that listing.
C23_SellerManagesListing ==
    [][(last'.op \in {"PUT listings/<pk>/", "DELETE listings/<pk>/"} /\ listings' # listings)
          => (last'.pk \in DOMAIN listings /\ last'.user = listings[last'.pk].seller)]_vars

\* C24: every order's status is one of Order.STATUS_CHOICES; an order that POST
\* orders/ creates from a body without status is pending; the buyer of an order that
\* POST orders/ creates is the requester; and no step changes the buyer of an order.
C24_OrderStatusAndBuyer ==
    /\ [](\A o \in DOMAIN orders : orders[o].status \in ORDER_STATUS_CHOICES)
    /\ [][/\ \A o \in DOMAIN orders \cap DOMAIN orders' : orders'[o].buyer = orders[o].buyer
          /\ last'.op = "POST orders/" =>
                \A o \in DOMAIN orders' \ DOMAIN orders :
                    /\ IsAuthenticated(last'.user)
                    /\ orders'[o].buyer = last'.user
                    /\ \A b \in OrderBodies :
                          ("status" \notin DOMAIN b /\ OrderListCreateView_post(last'.user, b))
                              => orders'[o].status = "pending"]_vars

\* an order that a user who is not its buyer has updated to paid
C24_Witness ==
    /\ last.op = "PUT orders/<pk>/"
    /\ last.pk \in DOMAIN orders
    /\ orders[last.pk].status = "paid"
    /\ orders[last.pk].buyer # last.user

\* the fields of escrow e that differ between the two states of a step
Escrow_changed(e) == {f \in DOMAIN escrows[e] : escrows'[e][f] # escrows[e][f]}

\* C25 as stated: mark_funded(tx_hash, raw_amount) sets status to FUNDED and tx_fund
\* to tx_hash, replaces raw_amount only by a non-empty raw_amount, and leaves
\* tx_create, tx_release, tx_refund, amount, buyer, seller and listing as they were;
\* mark_released changes only status (to COMPLETE) and tx_release, mark_refunded only
\* status (to REFUNDED) and tx_refund.
C25_MarkFrame ==
    [][\A e \in DOMAIN escrows :
          /\ \A h \in MarkHashes : \A a \in MarkAmounts \cup {NULL, ""} :
                Escrow_mark_funded(e, h, a) =>
                    /\ escrows'[e].status = STATUS_FUNDED
                    /\ escrows'[e].tx_fund = h
                    /\ escrows'[e].raw_amount =
                         IF a \in MarkAmounts THEN a ELSE escrows[e].raw_amount
                    /\ Escrow_changed(e) \cap {"tx_create", "tx_release", "tx_refund",
                                               "amount", "buyer", "seller", "listing"} = {}
          /\ \A h \in MarkHashes :
                Escrow_mark_released(e, h) =>
                    /\ escrows'[e].status = STATUS_COMPLETE
                    /\ escrows'[e].tx_release = h
                    /\ Escrow_changed(e) \subseteq {"status", "tx_release"}
          /\ \A h \in MarkHashes :
                Escrow_mark_refunded(e, h) =>
                    /\ escrows'[e].status = STATUS_REFUNDED
                    /\ escrows'[e].tx_refund = h
                    /\ Escrow_changed(e) \subseteq {"status", "tx_refund"}]_vars

\* C25 as amended: as stated, except that each of the three methods also writes
\* updated_at: mark_funded changes nothing but status, tx_fund, raw_amount and
\* updated_at, mark_released nothing but status, tx_release and updated_at,
\* mark_refunded nothing but status, tx_refund and updated_at.
C25_MarkFrameWithTimestamp ==
    [][\A e \in DOMAIN escrows :
          /\ \A h \in MarkHashes : \A a \in MarkAmounts \cup {NULL, ""} :
                Escrow_mark_funded(e, h, a) =>
                    /\ escrows'[e].status = STATUS_FUNDED
                    /\ escrows'[e].tx_fund = h
                    /\ escrows'[e].raw_amount =
                         IF a \in MarkAmounts THEN a ELSE escrows[e].raw_amount
                    /\ escrows'[e].updated_at = NOW
                    /\ Escrow_changed(e) \subseteq
                         {"status", "tx_fund", "raw_amount", "updated_at"}
          /\ \A h \in MarkHashes :
                Escrow_mark_released(e, h) =>
                    /\ escrows'[e].status = STATUS_COMPLETE
                    /\ escrows'[e].tx_release = h
                    /\ escrows'[e].updated_at = NOW
                    /\ Escrow_changed(e) \subseteq {"status", "tx_release", "updated_at"}
          /\ \A h \in MarkHashes :
                Escrow_mark_refunded(e, h) =>
                    /\ escrows'[e].status = STATUS_REFUNDED
                    /\ escrows'[e].tx_refund = h
                    /\ escrows'[e].updated_at = NOW
                    /\ Escrow_changed(e) \subseteq {"status", "tx_refund", "updated_at"}]_vars

\* an escrow created with raw_amount 7, funded without a raw_amount and refunded, has
\* just been released
C25_Witness ==
    /\ last.op = "mark_released"
    /\ escrows[last.pk].raw_amount = "7"
    /\ escrows[last.pk].tx_fund # NULL
    /\ escrows[last.pk].tx_refund # NULL
    /\ escrows[last.pk].updated_at = NOW

\* C26 as stated: when a helper method saves a caller's copy, a hash or raw_amount of
\* the stored row changes only if the call was given a value for that field, whatever
\* the other callers stored since the copy was loaded; the status is that of the
\* method saved last.
C26_NoLostHash ==
    [][\A c \in 1..MaxCallers : \A h \in MarkHashes :
          LET e == loaded[c].pk
              hashes == {"tx_create", "tx_fund", "tx_release", "tx_refund", "raw_amount"}
          IN  /\ \A a \in MarkAmounts \cup {NULL, ""} :
                    Escrow_instance_mark_funded(c, h, a) =>
                        /\ escrows'[e].status = STATUS_FUNDED
                        /\ Escrow_changed(e) \cap hashes \subseteq
                             {"tx_fund"} \cup (IF a \in MarkAmounts THEN {"raw_amount"} ELSE {})
              /\ Escrow_instance_mark_released(c, h) =>
                    /\ escrows'[e].status = STATUS_COMPLETE
                    /\ Escrow_changed(e) \cap hashes \subseteq {"tx_release"}
              /\ Escrow_instance_mark_refunded(c, h) =>
                    /\ escrows'[e].status = STATUS_REFUNDED
                    /\ Escrow_changed(e) \cap hashes \subseteq {"tx_refund"}]_vars

\* C27: a step of a REST request deletes no escrow and changes neither the status nor
\* a transaction hash of an escrow that exists; PUT, PATCH and DELETE have no handler
\* on escrows/ and escrows/<pk>/; and a row that POST escrows/ adds has the default
\* status and no hash.
C27_EscrowFrozenForRest ==
    /\ [](\A path \in {"escrows", "escrows_pk"} :
            {m \in HttpMethods : Allows(path, m)} \subseteq {"GET", "POST"})
    /\ [][last'.code # 0 =>
            /\ \A e \in DOMAIN escrows :
                  /\ e \in DOMAIN escrows'
                  /\ Escrow_changed(e) \cap {"status", "tx_create", "tx_fund", "tx_release",
                                             "tx_refund"} = {}
            /\ \A e \in DOMAIN escrows' \ DOMAIN escrows :
                  /\ last'.op = "POST escrows/"
                  /\ \A f \in {"status", "tx_create", "tx_fund", "tx_release", "tx_refund"} :
                        escrows'[e][f] = Escrow_defaults[f]]_vars

\* the listing of an escrow that was funded and released has just been deleted, and
\* the escrow is still there with its status and hashes
C27_Witness ==
    /\ last.op = "DELETE listings/<pk>/"
    /\ last.code = 204
    /\ \E e \in DOMAIN escrows :
          /\ escrows[e].listing = NoRow
          /\ escrows[e].status = STATUS_COMPLETE
          /\ escrows[e].tx_fund # NULL
          /\ escrows[e].tx_release # NULL

====
